---- MODULE Spec2Model ----
(***************************************************************************)
(* A state-machine model of the GitIgnore template browser                 *)
(* (src/Module/Utility/GitIgnore/gitignore_tui.py): the GitIgnoreTUI       *)
(* object's fields, the render/input loop, the background catalog-load and *)
(* content-regeneration threads, the usage store and the output file.      *)
(*                                                                         *)
(* Strings are sequences of character codes (the code's own key codes are  *)
(* integers: ord('q') = 113), so that lower(), sorting, substring search   *)
(* and the fuzzy score are computed as the code computes them.             *)
(***************************************************************************)
EXTENDS Integers, Sequences, FiniteSets, TLC

(***************************************************************************)
(* Bounds of the model.                                                    *)
(***************************************************************************)
\* longest filter text that can be typed
MaxFilterLen == 2
\* largest per-template usage count (toggle-in is disabled at the cap)
MaxUsage == 2
\* regeneration threads that can be in flight at once
MaxGen == 2
\* catalog-load threads that can be in flight at once
MaxLoad == 2
\* largest catalog drawn as an input of the filter specification
MaxCat == 3
\* separator blocks a file can hold (Append is disabled at the cap)
MaxAppends == 2
\* longest candidate text drawn as an input of the matcher specification
MaxTextLen == 4
\* names in the catalog of the Selected-panel specification
MaxSel == 5
\* longest raw name drawn as an input of get_templates
MaxRawLen == 2
\* most names in a list drawn as an input of get_templates
MaxNames == 3

(***************************************************************************)
(* Character and key codes.                                                *)
(***************************************************************************)
ChA == 97
ChB == 98

KeyBackspace8 == 8
KeyTab == 9
KeyEnter == 10
KeyReturn == 13
KeyEsc == 27
KeySpace == 32
KeySlash == 47
KeyUpperA == 65
KeyUpperN == 78
KeyUpperQ == 81
KeyUpperY == 89
KeyC == 99
KeyI == 105
KeyN == 110
KeyQ == 113
KeyR == 114
KeyS == 115
KeyX == 120
KeyY == 121
KeyBackspace == 127
\* curses.KEY_DOWN and curses.KEY_UP
KeyDown == 258
KeyUp == 259

\* line 898: ord(' '), ord('\n'), ord('\r')
SelectKeys == {KeySpace, KeyEnter, KeyReturn}

\* self.recently_used[:10]
RecentCap == 10

(***************************************************************************)
(* Sequence helpers (Python list and str primitives).                      *)
(***************************************************************************)
Range(s) == {s[i] : i \in 1..Len(s)}

Max2(a, b) == IF a >= b THEN a ELSE b

Min2(a, b) == IF a <= b THEN a ELSE b

\* c.lower() of one ASCII character
LowerCh(c) == IF c >= 65 /\ c <= 90 THEN c + 32 ELSE c

\* str.lower
Lower(s) == [i \in 1..Len(s) |-> LowerCh(s[i])]

\* Python's str < str: lexicographic on code points, a proper prefix first
RECURSIVE StrLess(_, _)
StrLess(s, t) ==
    IF t = <<>> THEN FALSE
    ELSE IF s = <<>> THEN TRUE
    ELSE IF s[1] # t[1] THEN s[1] < t[1]
    ELSE StrLess(Tail(s), Tail(t))

\* the index of the last occurrence (text.rindex), for comparison
LastIndexOf(query, text) ==
    LET n == Len(query)
        m == Len(text)
        hits == {i \in 0..(m - n) : \A j \in 1..n : text[i + j] = query[j]}
    IN  IF n > m \/ hits = {} THEN -1
        ELSE CHOOSE i \in hits : \A k \in hits : i >= k

\* text.index(query): the 0-based index of the first occurrence, -1 if none
\* (the code calls index only after `query in text`)
IndexOf(query, text) ==
    LET n == Len(query)
        m == Len(text)
        hits == {i \in 0..(m - n) : \A j \in 1..n : text[i + j] = query[j]}
    IN  IF n > m \/ hits = {} THEN -1
        ELSE CHOOSE i \in hits : \A k \in hits : i <= k

\* list.remove(x): drops the first occurrence only
RemoveFirst(s, x) ==
    IF x \notin Range(s) THEN s
    ELSE LET p == CHOOSE i \in 1..Len(s) : s[i] = x /\ \A j \in 1..(i - 1) : s[j] # x
         IN  [i \in 1..(Len(s) - 1) |-> IF i < p THEN s[i] ELSE s[i + 1]]

\* s[:n]
Take(s, n) == IF Len(s) <= n THEN s ELSE SubSeq(s, 1, n)

\* A stable insertion sort of pairs <<key, element>> by key, as list.sort and
\* sorted are stable: a pair goes after every pair whose key is not strictly
\* greater. Keys are sequences of integers compared as Python compares tuples
\* and strings.
RECURSIVE InsertStable(_, _)
InsertStable(x, s) ==
    IF s = <<>> THEN <<x>>
    ELSE IF StrLess(x[1], s[1][1]) THEN <<x>> \o s
    ELSE <<s[1]>> \o InsertStable(x, Tail(s))

RECURSIVE SortPairs(_)
SortPairs(s) ==
    IF s = <<>> THEN <<>>
    ELSE InsertStable(s[Len(s)], SortPairs(SubSeq(s, 1, Len(s) - 1)))

\* sorted(s, key=...) with keys[i] the key of s[i]
SortByKey(s, keys) ==
    LET sorted == SortPairs([i \in 1..Len(s) |-> <<keys[i], s[i]>>])
    IN  [i \in 1..Len(s) |-> sorted[i][2]]

\* sorted(a_set_of_str): code-point order; the elements are distinct
RECURSIVE SortedSet(_)
SortedSet(S) ==
    IF S = {} THEN <<>>
    ELSE LET m == CHOOSE x \in S : \A y \in S : y = x \/ StrLess(x, y)
         IN  <<m>> \o SortedSet(S \ {m})

\* list.sort(key=str.lower)
SortByLower(s) == SortByKey(s, [i \in 1..Len(s) |-> Lower(s[i])])

(***************************************************************************)
(* fuzzy_search(query, text) -> (match_found, score), lines 78-103.        *)
(***************************************************************************)
\* the loop of lines 95-98 from text position i (1-based; enumerate's index is
\* i - 1), with query_idx characters matched and the score so far
\* (a variant that counts positions from 1, for comparison)
RECURSIVE FuzzyScanOneBased(_, _, _, _, _)
FuzzyScanOneBased(q, t, i, query_idx, score) ==
    IF i > Len(t) THEN [qi |-> query_idx, score |-> score]
    ELSE IF query_idx < Len(q) /\ t[i] = q[query_idx + 1]
         THEN FuzzyScanOneBased(q, t, i + 1, query_idx + 1, score + 100 - i)
         ELSE FuzzyScanOneBased(q, t, i + 1, query_idx, score)

RECURSIVE FuzzyScan(_, _, _, _, _)
FuzzyScan(q, t, i, query_idx, score) ==
    IF i > Len(t) THEN [qi |-> query_idx, score |-> score]
    ELSE IF query_idx < Len(q) /\ t[i] = q[query_idx + 1]
         THEN FuzzyScan(q, t, i + 1, query_idx + 1, score + 100 - (i - 1))
         ELSE FuzzyScan(q, t, i + 1, query_idx, score)

fuzzy_search(query, text) ==
    IF query = <<>> THEN [match |-> TRUE, score |-> 0]
    ELSE LET q == Lower(query)
             t == Lower(text)
             at == IndexOf(q, t)
             scan == FuzzyScan(q, t, 1, 0, 0)
         IN  IF at >= 0 THEN [match |-> TRUE, score |-> 1000 - at]
             ELSE IF scan.qi = Len(q) THEN [match |-> TRUE, score |-> scan.score]
             ELSE [match |-> FALSE, score |-> 0]

(***************************************************************************)
(* _filter_templates_by_text and _filter_templates, lines 333-357.         *)
(***************************************************************************)
\* self.template_usage.get(template, 0)
UsageOf(usage, template) ==
    IF template \in DOMAIN usage THEN usage[template] ELSE 0

\* usage_boost = self.template_usage.get(template, 0) * 10   (line 352)
UsageBoostLower(usage, template) == 0 - UsageOf(usage, template) * 10
UsageBoost(usage, template) == UsageOf(usage, template) * 10

\* total_score = score + usage_boost   (line 353)
TotalScore(text, usage, template) ==
    fuzzy_search(text, template).score + UsageBoost(usage, template)

\* `if is_match:` (line 351): the entries that get into matches
KeepAll(text, template) == TRUE
IsKept(text, template) == fuzzy_search(text, template).match

\* the sort key of line 356: (-x[1], x[0].lower()) (a variant that sorts by
\* name alone, for comparison)
RankKeyByName(text, usage, template) == Lower(template)
RankKey(text, usage, template) ==
    <<0 - TotalScore(text, usage, template)>> \o Lower(template)

FilterByText(templates_list, text, usage) ==
    IF text = <<>> THEN SortByLower(templates_list)
    ELSE LET kept == SelectSeq(templates_list, LAMBDA t : IsKept(text, t))
         IN  SortByKey(kept, [i \in 1..Len(kept) |-> RankKey(text, usage, kept[i])])

\* the filtered list _filter_templates assigns (lines 335-338)
FilteredList(tmpl, text, usage) ==
    IF text = <<>> THEN tmpl ELSE FilterByText(tmpl, text, usage)

\* the clamp of lines 340-341 (a variant that steps back by one, for comparison)
ClampCursorByOne(cursor, n) == IF cursor >= n THEN Max2(0, cursor - 1) ELSE cursor
ClampCursor(cursor, n) == IF cursor >= n THEN Max2(0, n - 1) ELSE cursor

\* _filter_templates as a whole (lines 333-341): the list it assigns and the
\* Catalog cursor it leaves
FilterTemplates(tmpl, text, usage, cursor) ==
    LET list == FilteredList(tmpl, text, usage)
    IN  [list |-> list, cursor |-> ClampCursor(cursor, Len(list))]

(***************************************************************************)
(* The terminal (curses) and the remote service: the environment.          *)
(***************************************************************************)
\* stdscr.getmaxyx()[0]: the terminal's height in rows
TermRows == 15
\* lines of merged text the remote service returns per requested template
LinesPerTemplate == 3

\* visible rows of the catalog list: render gives the panel max_y - 10 rows
\* (line 1089), the border takes 2 (line 435) and the count line 1 (line 453)
CatalogVisible == TermRows - 13

\* bottom_height = 6   (line 1087)
BottomHeight == 6

\* visible rows of the selected list: inner_height = height - 2 (lines 532, 556)
SelectedVisible == BottomHeight - 2

\* content_height of the Down key in the Content panel (line 893)
ContentHeight == TermRows - 6

\* rows of text the Content panel shows: its height is max_y - 7 (line 1092)
\* and its border takes 2 (line 629)
ContentVisible == TermRows - 9

\* One line of text: what it is, the names it carries, its number.
Line(kind, names, k) == [kind |-> kind, names |-> names, k |-> k]

\* self.generated_content = ""   (lines 218, 859)
EmptyContent == <<>>

\* "# No templates selected\n# Select templates from the Available ..."
Placeholder == <<Line("none", <<>>, 1), Line("none", <<>>, 2)>>

\* "# No valid templates provided"   (line 139)
NoValidContent == <<Line("novalid", <<>>, 1)>>

\* f"# Error generating content: ...\n# Selected templates: {selected_list}"
ErrorContent(selected_list) ==
    <<Line("error", <<>>, 1), Line("error", selected_list, 2)>>

\* what GET {BASE_URL}/{tech_string} answers: LinesPerTemplate lines for each
\* requested name, in the order requested (the service's data does not change)
RECURSIVE RemoteResponse(_)
RemoteResponse(techs) ==
    IF techs = <<>> THEN <<>>
    ELSE [k \in 1..LinesPerTemplate |-> Line("line", <<techs[1]>>, k)]
         \o RemoteResponse(Tail(techs))

IsAlnum(c) == (c >= 48 /\ c <= 57) \/ (c >= 65 /\ c <= 90) \/ (c >= 97 /\ c <= 122)

IsSpace(c) == c \in {9, 10, 13, 32}

\* str.strip()
RECURSIVE Strip(_)
Strip(s) ==
    IF s = <<>> THEN s
    ELSE IF IsSpace(s[1]) THEN Strip(Tail(s))
    ELSE IF IsSpace(s[Len(s)]) THEN Strip(SubSeq(s, 1, Len(s) - 1))
    ELSE s

\* (a variant that keeps no dot, for comparison)
CleanTechNoDot(tech) == SelectSeq(Strip(tech), LAMBDA c : IsAlnum(c) \/ c \in {45, 95})
\* lines 133-134: strip, then keep alphanumerics and - _ .
CleanTech(tech) == SelectSeq(Strip(tech), LAMBDA c : IsAlnum(c) \/ c \in {45, 95, 46})

\* lines 131-141: the cleaned, non-empty names, lowercased (tech_string without
\* its commas)
TechString(technologies) ==
    LET cleaned == [i \in 1..Len(technologies) |-> CleanTech(technologies[i])]
        kept == SelectSeq(cleaned, LAMBDA t : t # <<>>)
    IN  [i \in 1..Len(kept) |-> Lower(kept[i])]

\* GitIgnoreAPI.get_templates when the request succeeds
get_templates(technologies) ==
    IF technologies = <<>> THEN Placeholder
    ELSE IF TechString(technologies) = <<>> THEN NoValidContent
    ELSE RemoteResponse(TechString(technologies))

\* get_templates reaches the network only with a non-empty tech_string
NeedsNetwork(technologies) == TechString(technologies) # <<>>

\* what a regeneration that runs alone and succeeds leaves for a selection
Regenerated(selection) ==
    IF selection = {} THEN Placeholder
    ELSE RemoteResponse(TechString(SortedSet(selection)))

\* line 156: clean_template and clean_template.replace('-','').replace('_','').isalnum()
ValidTemplate(t) ==
    /\ t # <<>>
    /\ SelectSeq(t, LAMBDA c : c \notin {45, 95}) # <<>>
    /\ \A i \in 1..Len(t) : IsAlnum(t[i]) \/ t[i] \in {45, 95}

\* GitIgnoreAPI.list_templates on a response already split at newlines and commas
list_templates(tokens) ==
    SortedSet({Strip(tokens[i]) : i \in {j \in 1..Len(tokens) : ValidTemplate(Strip(tokens[j]))}})

(***************************************************************************)
(* The usage store (~/.gitignore_tui_usage.json).                          *)
(***************************************************************************)
EmptyDict == [n \in {} |-> 0]

\* a readable JSON object with a dict 'usage' and a list 'recently_used'
StoredUsage(usage, recent) == [kind |-> "data", usage |-> usage, recent |-> recent]

NoUsageFile == [kind |-> "missing", usage |-> EmptyDict, recent |-> <<>>]

\* a file that is not JSON (json.JSONDecodeError) or not readable (PermissionError)
CorruptUsageFile == [kind |-> "corrupt", usage |-> EmptyDict, recent |-> <<>>]

\* _load_usage_data: the (template_usage, recently_used) after it
\* a JSON object whose 'usage' is not a dict (lines 268-269)
UsageNotDictFile(recent) == [kind |-> "usage_not_dict", usage |-> EmptyDict, recent |-> recent]

\* a JSON object whose 'recently_used' is not a list (lines 270-271)
RecentNotListFile(usage) == [kind |-> "recent_not_list", usage |-> usage, recent |-> <<>>]

\* valid JSON whose top level is not an object ([], null, 5, "x")
NotObjectUsageFile == [kind |-> "not_object", usage |-> EmptyDict, recent |-> <<>>]

\* data.get of line 266 on a value that has no get: AttributeError, which the
\* except of line 272 does not name
UsageLoadRaises(file) == file.kind = "not_object"

LoadedUsage(file) ==
    IF file.kind \in {"data", "recent_not_list"} THEN file.usage ELSE EmptyDict

LoadedRecent(file) ==
    IF file.kind \in {"data", "usage_not_dict"} THEN file.recent ELSE <<>>

\* lines 291-297
TrackUsageCount(usage, template) ==
    [n \in (DOMAIN usage) \cup {template} |->
        IF n = template THEN UsageOf(usage, template) + 1 ELSE usage[n]]

\* (a variant that puts the name last, for comparison)
TrackRecentAtEnd(recent, template) ==
    Take(RemoveFirst(recent, template) \o <<template>>, RecentCap)
TrackRecent(recent, template) ==
    Take(<<template>> \o RemoveFirst(recent, template), RecentCap)

(***************************************************************************)
(* The output file (.gitignore).                                           *)
(***************************************************************************)
NoFile == [exists |-> FALSE, data |-> <<>>]

\* a file that was there before the program started
OrigBytes == <<Line("orig", <<>>, 0)>>

\* (a variant that lists no template, for comparison)
HeaderOfNone(selected) == <<Line("header", <<>>, 0)>>

\* _generate_header (the timestamp is not modelled)
Header(selected) == <<Line("header", SortedSet(selected), 0)>>

\* the three lines of lines 798-800 (the timestamp is not modelled)
Separator(selected) == <<Line("separator", SortedSet(selected), 0)>>

\* lines 786-787: write_text replaces the file
OverwriteData(old, selected, content) == Header(selected) \o content

\* lines 797-801: open(..., 'a') keeps the bytes there and writes after them
TruncatingAppendData(old, selected, content) == Separator(selected) \o content
AppendData(old, selected, content) == old \o Separator(selected) \o content

\* the separator blocks in a file
Appends(data) == Cardinality({i \in 1..Len(data) : data[i].kind = "separator"})

(***************************************************************************)
(* The state: the fields of GitIgnoreTUI (lines 207-247), the two files,   *)
(* the running threads and the position of the main loop.                  *)
(***************************************************************************)
VARIABLES
    templates,              \* self.templates
    filtered_templates,     \* self.filtered_templates
    filter_text,            \* self.filter_text
    selected_templates,     \* self.selected_templates
    generated_content,      \* self.generated_content
    template_usage,         \* self.template_usage
    recently_used,          \* self.recently_used
    current_panel,          \* 0 Search, 1 Catalog, 2 Selected, 3 Content
    template_selected,      \* the Catalog cursor
    template_scroll,
    selected_index,         \* the Selected cursor
    selected_scroll,
    content_scroll,
    loading,
    generation_in_progress,
    running,
    status_message,
    error_message,
    message_expired,        \* more than 5 s have passed since self.message_timestamp
    usage_file,             \* ~/.gitignore_tui_usage.json
    gitignore_file,         \* ./.gitignore
    loaders,                \* the running _load_templates threads, oldest first
    generators,             \* the running _generate_content threads, oldest first
    mainpc,                 \* render | input | save_dialog | info_dialog | exited | crashed
    clean,                  \* history: only toggle-ins so far, each with no regeneration running
    toggled,                \* history: the names toggled in while clean
    probe                   \* history: a toggle-in followed by a toggle-out of the same name

progVars ==
    <<templates, filtered_templates, filter_text, selected_templates,
      generated_content, template_usage, recently_used, current_panel,
      template_selected, template_scroll, selected_index, selected_scroll,
      content_scroll, loading, generation_in_progress, running, status_message,
      error_message, message_expired, usage_file, gitignore_file, loaders, generators, mainpc>>

histVars == <<clean, toggled, probe>>

vars == <<progVars, histVars>>

catalogVars == <<templates, filtered_templates, filter_text>>
usageVars == <<template_usage, recently_used, usage_file>>
cursorVars == <<template_selected, template_scroll, selected_index, selected_scroll, content_scroll>>
messageVars == <<status_message, error_message, message_expired>>

\* _set_status_message (lines 249-257)
SetStatus(message) ==
    status_message' = message /\ error_message' = "" /\ message_expired' = FALSE

SetError(message) ==
    error_message' = message /\ status_message' = "" /\ message_expired' = FALSE

RemoveAt(s, i) == [j \in 1..(Len(s) - 1) |-> IF j < i THEN s[j] ELSE s[j + 1]]

NewLoader == [pc |-> "fetch"]

NewGenerator == [pc |-> "start", list |-> <<>>]

IdleProbe == [st |-> "idle", name |-> <<>>, sel0 |-> {}, gen0 |-> <<>>]

\* the threads are daemon threads: they end with the process
Alive == mainpc \notin {"exited", "crashed"}

(***************************************************************************)
(* __init__ (lines 207-247): the state after construction, for the usage   *)
(* file and the output file found on disk.                                 *)
(***************************************************************************)
InitWith(usageFiles, outputFiles) ==
    /\ usage_file \in usageFiles
    /\ gitignore_file \in outputFiles
    /\ template_usage = LoadedUsage(usage_file)
    /\ recently_used = LoadedRecent(usage_file)
    /\ templates = <<>>
    /\ filtered_templates = <<>>
    /\ filter_text = <<>>
    /\ selected_templates = {}
    /\ generated_content = EmptyContent
    /\ current_panel = 1
    /\ template_selected = 0
    /\ template_scroll = 0
    /\ selected_index = 0
    /\ selected_scroll = 0
    /\ content_scroll = 0
    /\ loading = TRUE
    /\ generation_in_progress = FALSE
    /\ running = TRUE
    /\ status_message = "Loading templates..."
    /\ error_message = ""
    /\ message_expired = FALSE
    /\ IF UsageLoadRaises(usage_file)
       THEN \* line 225 raises out of __init__ and main() exits (lines 1124-1126)
            /\ loaders = <<>>
            /\ mainpc = "crashed"
       ELSE /\ loaders = <<NewLoader>>
            /\ mainpc = "render"
    /\ generators = <<>>
    /\ clean = TRUE
    /\ toggled = {}
    /\ probe = IdleProbe

(***************************************************************************)
(* _load_templates (lines 301-311), one thread: the request, then          *)
(* self.templates, then self.filtered_templates, then the cursor clamp and *)
(* the status. The main loop can run between any two of them.              *)
(***************************************************************************)
\* lines 304-305: list_templates() answered; self.templates assigned and sorted
LoadFetchOk(i, tokens) ==
    /\ Alive
    /\ i \in 1..Len(loaders)
    /\ loaders[i].pc = "fetch"
    /\ templates' = SortByLower(list_templates(tokens))
    /\ loaders' = [loaders EXCEPT ![i].pc = "filter"]
    /\ UNCHANGED <<filtered_templates, filter_text, selected_templates,
                   generated_content, usageVars, current_panel, cursorVars, loading,
                   generation_in_progress, running, messageVars, gitignore_file,
                   generators, mainpc, histVars>>

\* (a variant that also empties the catalog, for comparison)
LoadFetchFailClearing(i) ==
    /\ Alive
    /\ i \in 1..Len(loaders)
    /\ loaders[i].pc = "fetch"
    /\ SetError("Failed to load templates")
    /\ loading' = FALSE
    /\ loaders' = RemoveAt(loaders, i)
    /\ templates' = <<>>
    /\ filtered_templates' = <<>>
    /\ UNCHANGED <<filter_text, selected_templates, generated_content, usageVars,
                   current_panel, cursorVars, generation_in_progress, running,
                   gitignore_file, generators, mainpc, histVars>>

\* (a variant that leaves loading as it is, for comparison)
LoadFetchFailStillLoading(i) ==
    /\ Alive
    /\ i \in 1..Len(loaders)
    /\ loaders[i].pc = "fetch"
    /\ SetError("Failed to load templates")
    /\ loaders' = RemoveAt(loaders, i)
    /\ UNCHANGED <<catalogVars, selected_templates, generated_content, usageVars,
                   current_panel, cursorVars, loading, generation_in_progress,
                   running, gitignore_file, generators, mainpc, histVars>>

\* lines 309-311: list_templates() raised
LoadFetchFail(i) ==
    /\ Alive
    /\ i \in 1..Len(loaders)
    /\ loaders[i].pc = "fetch"
    /\ SetError("Failed to load templates")
    /\ loading' = FALSE
    /\ loaders' = RemoveAt(loaders, i)
    /\ UNCHANGED <<catalogVars, selected_templates, generated_content, usageVars,
                   current_panel, cursorVars, generation_in_progress, running,
                   gitignore_file, generators, mainpc, histVars>>

\* The same failure statement by statement: _set_status_message takes no
\* lock, and another thread or the main loop can run between its assignments.
\* line 252 (called from line 310): self.error_message assigned
LoadFailSetError(i) ==
    /\ Alive
    /\ i \in 1..Len(loaders)
    /\ loaders[i].pc = "fetch"
    /\ error_message' = "Failed to load templates"
    /\ loaders' = [loaders EXCEPT ![i].pc = "failed"]
    /\ UNCHANGED <<catalogVars, selected_templates, generated_content, usageVars,
                   current_panel, cursorVars, loading, generation_in_progress,
                   running, status_message, message_expired, gitignore_file,
                   generators, mainpc, histVars>>

\* lines 253 and 257, then 311: self.status_message emptied, the timestamp
\* taken, loading = False
LoadFailClearStatus(i) ==
    /\ Alive
    /\ i \in 1..Len(loaders)
    /\ loaders[i].pc = "failed"
    /\ status_message' = ""
    /\ message_expired' = FALSE
    /\ loading' = FALSE
    /\ loaders' = RemoveAt(loaders, i)
    /\ UNCHANGED <<catalogVars, selected_templates, generated_content, usageVars,
                   current_panel, cursorVars, generation_in_progress, running,
                   error_message, gitignore_file, generators, mainpc, histVars>>

\* lines 335-338 in the thread: self.filtered_templates assigned
LoadFilter(i) ==
    /\ Alive
    /\ i \in 1..Len(loaders)
    /\ loaders[i].pc = "filter"
    /\ filtered_templates' = FilteredList(templates, filter_text, template_usage)
    /\ loaders' = [loaders EXCEPT ![i].pc = "clamp"]
    /\ UNCHANGED <<templates, filter_text, selected_templates, generated_content,
                   usageVars, current_panel, cursorVars, loading,
                   generation_in_progress, running, messageVars, gitignore_file,
                   generators, mainpc, histVars>>

\* lines 340-341, then 307-308: the clamp, the status, loading = False
LoadFinish(i) ==
    /\ Alive
    /\ i \in 1..Len(loaders)
    /\ loaders[i].pc = "clamp"
    /\ template_selected' = ClampCursor(template_selected, Len(filtered_templates))
    /\ SetStatus("Loaded templates")
    /\ loading' = FALSE
    /\ loaders' = RemoveAt(loaders, i)
    /\ UNCHANGED <<catalogVars, selected_templates, generated_content, usageVars,
                   current_panel, template_scroll, selected_index, selected_scroll,
                   content_scroll, generation_in_progress, running, gitignore_file,
                   generators, mainpc, histVars>>

(***************************************************************************)
(* _generate_content (lines 313-331), one thread: the emptiness test, then *)
(* either the placeholder or the snapshot of the selection, the request,   *)
(* and the result written with the flag cleared.                           *)
(***************************************************************************)
\* line 315
GenStart(i) ==
    /\ Alive
    /\ i \in 1..Len(generators)
    /\ generators[i].pc = "start"
    /\ generators' = [generators EXCEPT
                        ![i].pc = IF selected_templates = {} THEN "placeholder" ELSE "snap"]
    /\ UNCHANGED <<catalogVars, selected_templates, generated_content, usageVars,
                   current_panel, cursorVars, loading, generation_in_progress,
                   running, messageVars, gitignore_file, loaders, mainpc, histVars>>

\* what a finished regeneration does to the record of a toggle-on, toggle-off
ProbeAfterGen(ok) ==
    IF probe.st = "idle" \/ probe.st = "done" THEN probe
    ELSE IF ~ok THEN IdleProbe
    ELSE IF probe.st = "off" /\ Len(generators) = 1 THEN [probe EXCEPT !.st = "done"]
    ELSE probe

\* lines 316-317
GenPlaceholder(i) ==
    /\ Alive
    /\ i \in 1..Len(generators)
    /\ generators[i].pc = "placeholder"
    /\ generated_content' = Placeholder
    /\ generators' = RemoveAt(generators, i)
    /\ probe' = ProbeAfterGen(TRUE)
    /\ UNCHANGED <<catalogVars, selected_templates, usageVars, current_panel,
                   cursorVars, loading, generation_in_progress, running,
                   messageVars, gitignore_file, loaders, mainpc, clean, toggled>>

\* lines 319-322
GenSnap(i) ==
    /\ Alive
    /\ i \in 1..Len(generators)
    /\ generators[i].pc = "snap"
    /\ generation_in_progress' = TRUE
    /\ generators' = [generators EXCEPT ![i] = [pc |-> "call", list |-> SortedSet(selected_templates)]]
    /\ SetStatus("Generating content")
    /\ UNCHANGED <<catalogVars, selected_templates, generated_content, usageVars,
                   current_panel, cursorVars, loading, running, gitignore_file,
                   loaders, mainpc, histVars>>

\* line 324: what a successful get_templates(selected_list) leaves in
\* self.generated_content (assigned, never appended)
AppendedContent(old, selected_list) == old \o get_templates(selected_list)
FreshOnlyContent(old, selected_list) ==
    IF selected_list = SortedSet(selected_templates) THEN get_templates(selected_list)
    ELSE old
NewContent(old, selected_list) == get_templates(selected_list)

\* lines 324-325 and 331
GenReturnOk(i) ==
    /\ Alive
    /\ i \in 1..Len(generators)
    /\ generators[i].pc = "call"
    /\ generated_content' = NewContent(generated_content, generators[i].list)
    /\ SetStatus("Generated content")
    /\ generation_in_progress' = FALSE
    /\ generators' = RemoveAt(generators, i)
    /\ probe' = ProbeAfterGen(TRUE)
    /\ UNCHANGED <<catalogVars, selected_templates, usageVars, current_panel,
                   cursorVars, loading, running, gitignore_file, loaders, mainpc,
                   clean, toggled>>

\* lines 326-331: the request raised
GenReturnFail(i) ==
    /\ Alive
    /\ i \in 1..Len(generators)
    /\ generators[i].pc = "call"
    /\ NeedsNetwork(generators[i].list)
    /\ generated_content' = ErrorContent(generators[i].list)
    /\ SetError("Generation failed")
    /\ generation_in_progress' = FALSE
    /\ generators' = RemoveAt(generators, i)
    /\ probe' = ProbeAfterGen(FALSE)
    /\ clean' = FALSE
    /\ toggled' = {}
    /\ UNCHANGED <<catalogVars, selected_templates, usageVars, current_panel,
                   cursorVars, loading, running, gitignore_file, loaders, mainpc>>

(***************************************************************************)
(* _handle_input (lines 808-926): one operator per branch of the elif      *)
(* chain. Each leaves the history variables to KeyPress.                   *)
(***************************************************************************)
\* lines 816-819 and 836-839: the character appended, the list re-filtered,
\* the Catalog cursor and scroll reset
TypeChar(key) ==
    /\ Len(filter_text) < MaxFilterLen
    /\ filter_text' = Append(filter_text, key)
    /\ filtered_templates' = FilteredList(templates, filter_text', template_usage)
    /\ template_selected' = 0
    /\ template_scroll' = 0
    /\ mainpc' = "render"
    /\ UNCHANGED <<templates, selected_templates, generated_content, usageVars,
                   current_panel, selected_index, selected_scroll, content_scroll,
                   loading, generation_in_progress, running, messageVars,
                   gitignore_file, loaders, generators>>

\* (a variant that quits from the Search panel too, for comparison)
QuitKeyEverywhere(key) ==
    /\ running' = FALSE
    /\ mainpc' = "exited"
    /\ UNCHANGED <<catalogVars, selected_templates, generated_content,
                   usageVars, current_panel, cursorVars, loading,
                   generation_in_progress, messageVars, gitignore_file,
                   loaders, generators>>

\* lines 811-820
QuitKey(key) ==
    IF current_panel # 0
    THEN /\ running' = FALSE
         /\ mainpc' = "exited"
         /\ UNCHANGED <<catalogVars, selected_templates, generated_content,
                        usageVars, current_panel, cursorVars, loading,
                        generation_in_progress, messageVars, gitignore_file,
                        loaders, generators>>
    ELSE TypeChar(key)

\* (self.current_panel + 1) % 4 (line 823) (a variant that cycles through
\* three panels, for comparison)
NextPanelOfThree(panel) == (panel + 1) % 3
NextPanel(panel) == (panel + 1) % 4

\* lines 822-824
TabKey ==
    /\ current_panel' = NextPanel(current_panel)
    /\ mainpc' = "render"
    /\ UNCHANGED <<catalogVars, selected_templates, generated_content, usageVars,
                   cursorVars, loading, generation_in_progress, running,
                   messageVars, gitignore_file, loaders, generators>>

\* lines 920-925, reached by a key no branch of the chain handles: an
\* error message older than 5 s is cleared; the elif of line 923 does nothing
UnboundKey ==
    /\ IF error_message # "" /\ message_expired
       THEN /\ error_message' = ""
            /\ UNCHANGED <<status_message, message_expired>>
       ELSE UNCHANGED messageVars
    /\ mainpc' = "render"
    /\ UNCHANGED <<catalogVars, selected_templates, generated_content, usageVars,
                   current_panel, cursorVars, loading, generation_in_progress,
                   running, gitignore_file, loaders, generators>>

\* a key whose branch returns with nothing assigned
IgnoredKey ==
    /\ mainpc' = "render"
    /\ UNCHANGED <<catalogVars, selected_templates, generated_content, usageVars,
                   current_panel, cursorVars, loading, generation_in_progress,
                   running, messageVars, gitignore_file, loaders, generators>>

\* self.filter_text[:-1] (line 829) (a variant that drops the first
\* character, for comparison)
DropFirst(s) == SubSeq(s, 2, Len(s))
DropLast(s) == SubSeq(s, 1, Len(s) - 1)

\* lines 827-833
BackspaceKey ==
    IF filter_text # <<>>
    THEN /\ filter_text' = DropLast(filter_text)
         /\ filtered_templates' = FilteredList(templates, filter_text', template_usage)
         /\ template_selected' = 0
         /\ template_scroll' = 0
         /\ mainpc' = "render"
         /\ UNCHANGED <<templates, selected_templates, generated_content, usageVars,
                        current_panel, selected_index, selected_scroll,
                        content_scroll, loading, generation_in_progress, running,
                        messageVars, gitignore_file, loaders, generators>>
    ELSE IgnoredKey

\* (a variant in which / is not typed, for comparison)
SearchKeySkippingSlash(key) ==
    IF key \in {KeyBackspace8, KeyBackspace} THEN BackspaceKey
    ELSE IF key >= 32 /\ key <= 126 /\ key # KeySlash THEN TypeChar(key)
    ELSE IgnoredKey
\* lines 826-841
SearchKey(key) ==
    IF key \in {KeyBackspace8, KeyBackspace} THEN BackspaceKey
    ELSE IF key >= 32 /\ key <= 126 THEN TypeChar(key)
    ELSE IgnoredKey

\* lines 843-845 and 1069-1072: the dialog is open
InfoKey ==
    /\ mainpc' = "info_dialog"
    /\ UNCHANGED <<catalogVars, selected_templates, generated_content, usageVars,
                   current_panel, cursorVars, loading, generation_in_progress,
                   running, messageVars, gitignore_file, loaders, generators>>

\* what _save_gitignore treats as nothing to save (line 690)
NothingToSave(content) == content = EmptyContent \/ content[1].kind = "none"

\* lines 847-849 and 688-705
SaveKey ==
    IF NothingToSave(generated_content)
    THEN /\ SetError("No content to save")
         /\ mainpc' = "render"
         /\ UNCHANGED <<catalogVars, selected_templates, generated_content,
                        usageVars, current_panel, cursorVars, loading,
                        generation_in_progress, running, gitignore_file, loaders,
                        generators>>
    ELSE IF gitignore_file.exists
    THEN /\ mainpc' = "save_dialog"
         /\ UNCHANGED <<catalogVars, selected_templates, generated_content,
                        usageVars, current_panel, cursorVars, loading,
                        generation_in_progress, running, messageVars,
                        gitignore_file, loaders, generators>>
    ELSE /\ gitignore_file' =
                [exists |-> TRUE, data |-> Header(selected_templates) \o generated_content]
         /\ SetStatus("Saved")
         /\ mainpc' = "render"
         /\ UNCHANGED <<catalogVars, selected_templates, generated_content,
                        usageVars, current_panel, cursorVars, loading,
                        generation_in_progress, running, loaders, generators>>

\* (a variant that also empties the selection and the content, for
\* comparison)
RefreshKeyClearing ==
    /\ Len(loaders) < MaxLoad
    /\ loading' = TRUE
    /\ SetStatus("Refreshing templates...")
    /\ loaders' = Append(loaders, NewLoader)
    /\ selected_templates' = {}
    /\ generated_content' = EmptyContent
    /\ mainpc' = "render"
    /\ UNCHANGED <<catalogVars, usageVars, current_panel, cursorVars,
                   generation_in_progress, running, gitignore_file, generators>>

\* lines 851-855
RefreshKey ==
    /\ Len(loaders) < MaxLoad
    /\ loading' = TRUE
    /\ SetStatus("Refreshing templates...")
    /\ loaders' = Append(loaders, NewLoader)
    /\ mainpc' = "render"
    /\ UNCHANGED <<catalogVars, selected_templates, generated_content, usageVars,
                   current_panel, cursorVars, generation_in_progress, running,
                   gitignore_file, generators>>

\* (a variant that leaves the content, for comparison)
ClearKeyKeepingContent ==
    /\ selected_templates' = {}
    /\ selected_index' = 0
    /\ selected_scroll' = 0
    /\ SetStatus("Cleared all selections")
    /\ mainpc' = "render"
    /\ UNCHANGED <<catalogVars, generated_content, usageVars, current_panel,
                   template_selected, template_scroll, content_scroll, loading,
                   generation_in_progress, running, gitignore_file, loaders,
                   generators>>

\* lines 857-863
ClearKey ==
    /\ selected_templates' = {}
    /\ generated_content' = EmptyContent
    /\ selected_index' = 0
    /\ selected_scroll' = 0
    /\ SetStatus("Cleared all selections")
    /\ mainpc' = "render"
    /\ UNCHANGED <<catalogVars, usageVars, current_panel, template_selected,
                   template_scroll, content_scroll, loading,
                   generation_in_progress, running, gitignore_file, loaders,
                   generators>>

\* lines 865-868
SlashKey ==
    /\ current_panel' = 0
    /\ SetStatus("Search mode")
    /\ mainpc' = "render"
    /\ UNCHANGED <<catalogVars, selected_templates, generated_content, usageVars,
                   cursorVars, loading, generation_in_progress, running,
                   gitignore_file, loaders, generators>>

\* lines 870-879
UpKey ==
    /\ template_selected' =
          IF current_panel = 1 /\ filtered_templates # <<>>
          THEN Max2(0, template_selected - 1) ELSE template_selected
    /\ selected_index' =
          IF current_panel = 2 /\ selected_templates # {}
          THEN Max2(0, selected_index - 1) ELSE selected_index
    /\ content_scroll' =
          IF current_panel = 3 THEN Max2(0, content_scroll - 1) ELSE content_scroll
    /\ mainpc' = "render"
    /\ UNCHANGED <<catalogVars, selected_templates, generated_content, usageVars,
                   current_panel, template_scroll, selected_scroll, loading,
                   generation_in_progress, running, messageVars, gitignore_file,
                   loaders, generators>>

\* lines 881-896
DownKey ==
    /\ template_selected' =
          IF current_panel = 1 /\ filtered_templates # <<>>
          THEN Min2(Len(filtered_templates) - 1, template_selected + 1)
          ELSE template_selected
    /\ selected_index' =
          IF current_panel = 2 /\ selected_templates # {}
          THEN Min2(Cardinality(selected_templates) - 1, selected_index + 1)
          ELSE selected_index
    /\ content_scroll' =
          IF current_panel = 3
          THEN Min2(Max2(0, Len(generated_content) - ContentHeight), content_scroll + 1)
          ELSE content_scroll
    /\ mainpc' = "render"
    /\ UNCHANGED <<catalogVars, selected_templates, generated_content, usageVars,
                   current_panel, template_scroll, selected_scroll, loading,
                   generation_in_progress, running, messageVars, gitignore_file,
                   loaders, generators>>

\* line 907 and 917: threading.Thread(target=self._generate_content).start()
SpawnGenerator ==
    /\ Len(generators) < MaxGen
    /\ generators' = Append(generators, NewGenerator)

\* line 903: the name leaves the set (a variant that leaves it in, for comparison)
KeepSelected(selected, template) == selected
RemoveSelected(selected, template) == selected \ {template}

\* (a variant in which a failed save ends the handler before the thread is
\* started, for comparison)
ToggleKeyStoppedBySave(io_ok) ==
    IF filtered_templates = <<>> THEN IgnoredKey
    ELSE IF template_selected >= Len(filtered_templates)
    THEN \* line 901 raises IndexError, which run() does not catch (line 1111)
         /\ mainpc' = "crashed"
         /\ UNCHANGED <<catalogVars, selected_templates, generated_content,
                        usageVars, current_panel, cursorVars, loading,
                        generation_in_progress, running, messageVars,
                        gitignore_file, loaders, generators>>
    ELSE LET template == filtered_templates[template_selected + 1]
         IN  /\ IF template \in selected_templates
                THEN /\ selected_templates' = RemoveSelected(selected_templates, template)
                     /\ io_ok
                     /\ UNCHANGED <<usageVars, messageVars>>
                ELSE /\ UsageOf(template_usage, template) < MaxUsage
                     /\ selected_templates' = selected_templates \cup {template}
                     /\ template_usage' = TrackUsageCount(template_usage, template)
                     /\ recently_used' = TrackRecent(recently_used, template)
                     /\ IF io_ok
                        THEN /\ usage_file' = StoredUsage(template_usage', recently_used')
                             /\ UNCHANGED messageVars
                        ELSE /\ SetError("Warning: Could not save usage data")
                             /\ UNCHANGED usage_file
             /\ IF io_ok THEN SpawnGenerator ELSE UNCHANGED generators
             /\ mainpc' = "render"
             /\ UNCHANGED <<catalogVars, generated_content, current_panel,
                            cursorVars, loading, generation_in_progress, running,
                            gitignore_file, loaders>>

\* lines 899-907, with the result of _save_usage_data (lines 276-287)
ToggleKey(io_ok) ==
    IF filtered_templates = <<>> THEN IgnoredKey
    ELSE IF template_selected >= Len(filtered_templates)
    THEN \* line 901 raises IndexError, which run() does not catch (line 1111)
         /\ mainpc' = "crashed"
         /\ UNCHANGED <<catalogVars, selected_templates, generated_content,
                        usageVars, current_panel, cursorVars, loading,
                        generation_in_progress, running, messageVars,
                        gitignore_file, loaders, generators>>
    ELSE LET template == filtered_templates[template_selected + 1]
         IN  /\ IF template \in selected_templates
                THEN /\ selected_templates' = RemoveSelected(selected_templates, template)
                     /\ io_ok
                     /\ UNCHANGED <<usageVars, messageVars>>
                ELSE /\ UsageOf(template_usage, template) < MaxUsage
                     /\ selected_templates' = selected_templates \cup {template}
                     /\ template_usage' = TrackUsageCount(template_usage, template)
                     /\ recently_used' = TrackRecent(recently_used, template)
                     /\ IF io_ok
                        THEN /\ usage_file' = StoredUsage(template_usage', recently_used')
                             /\ UNCHANGED messageVars
                        ELSE /\ SetError("Warning: Could not save usage data")
                             /\ UNCHANGED usage_file
             /\ SpawnGenerator
             /\ mainpc' = "render"
             /\ UNCHANGED <<catalogVars, generated_content, current_panel,
                            cursorVars, loading, generation_in_progress, running,
                            gitignore_file, loaders>>

\* lines 911-913: the entry at the cursor in sorted(list(self.selected_templates))
\* (a variant that sorts with key=str.lower, for comparison)
RemovedEntryByLower(selected, index) == SortByLower(SortedSet(selected))[index + 1]
RemovedEntry(selected, index) == SortedSet(selected)[index + 1]

\* lines 909-917
RemoveKey ==
    LET selected_list == SortedSet(selected_templates)
    IN  IF selected_templates # {} /\ selected_index < Len(selected_list)
        THEN /\ selected_templates' =
                   selected_templates \ {RemovedEntry(selected_templates, selected_index)}
             /\ selected_index' = ClampCursor(selected_index, Cardinality(selected_templates'))
             /\ SpawnGenerator
             /\ mainpc' = "render"
             /\ UNCHANGED <<catalogVars, generated_content, usageVars,
                            current_panel, template_selected, template_scroll,
                            selected_scroll, content_scroll, loading,
                            generation_in_progress, running, messageVars,
                            gitignore_file, loaders>>
        ELSE IgnoredKey

\* lines 898-918
SelectKey(io_ok) ==
    IF current_panel = 1 THEN ToggleKey(io_ok)
    ELSE /\ io_ok
         /\ IF current_panel = 2 THEN RemoveKey ELSE IgnoredKey

\* the elif chain of lines 811-918, in its order
HandleInput(key, io_ok) ==
    IF key \in {KeyQ, KeyUpperQ, KeyEsc} THEN io_ok /\ QuitKey(key)
    ELSE IF key = KeyTab THEN io_ok /\ TabKey
    ELSE IF current_panel = 0 THEN io_ok /\ SearchKey(key)
    ELSE IF key = KeyI THEN io_ok /\ InfoKey
    ELSE IF key = KeyS THEN io_ok /\ SaveKey
    ELSE IF key = KeyR THEN io_ok /\ RefreshKey
    ELSE IF key = KeyC THEN io_ok /\ ClearKey
    ELSE IF key = KeySlash THEN io_ok /\ SlashKey
    ELSE IF key = KeyUp THEN io_ok /\ UpKey
    ELSE IF key = KeyDown THEN io_ok /\ DownKey
    ELSE IF key \in SelectKeys THEN SelectKey(io_ok)
    ELSE io_ok /\ UnboundKey

(***************************************************************************)
(* The main loop (run, lines 1102-1114): render, then getch and the        *)
(* handler; the two dialogs read keys of their own.                        *)
(***************************************************************************)
\* lines 475-478 and 562-565
ScrollTo(scroll, cursor, visible) ==
    IF cursor < scroll THEN cursor
    ELSE IF cursor >= scroll + visible THEN cursor - visible + 1
    ELSE scroll

\* render (lines 1079-1100): what a frame changes in the state
Render ==
    /\ mainpc = "render"
    /\ template_scroll' =
          IF ~loading /\ filtered_templates # <<>>
          THEN ScrollTo(template_scroll, template_selected, CatalogVisible)
          ELSE template_scroll
    /\ selected_scroll' =
          IF selected_templates # {}
          THEN ScrollTo(selected_scroll, selected_index, SelectedVisible)
          ELSE selected_scroll
    /\ selected_index' =
          IF selected_templates # {}
          THEN ClampCursor(selected_index, Cardinality(selected_templates))
          ELSE selected_index
    /\ mainpc' = "input"
    /\ UNCHANGED <<catalogVars, selected_templates, generated_content, usageVars,
                   current_panel, template_selected, content_scroll, loading,
                   generation_in_progress, running, messageVars, gitignore_file,
                   loaders, generators, histVars>>

\* lines 570-577: the entries of the Selected panel drawn highlighted
HighlightedSelected(selected, index, scroll, panel) ==
    LET selected_list == SortedSet(selected)
    IN  {selected_list[item_idx + 1] :
            item_idx \in {i \in scroll..(scroll + SelectedVisible - 1) :
                             i < Len(selected_list) /\ i = index /\ panel = 2}}

\* time.time() - self.message_timestamp comes to exceed 5 (line 921)
FiveSecondsPass ==
    /\ Alive
    /\ ~message_expired
    /\ message_expired' = TRUE
    /\ UNCHANGED <<catalogVars, selected_templates, generated_content, usageVars,
                   current_panel, cursorVars, loading, generation_in_progress,
                   running, status_message, error_message, gitignore_file,
                   loaders, generators, mainpc, histVars>>

\* getch() timed out (key == -1, line 1109)
NoKey ==
    /\ mainpc = "input"
    /\ mainpc' = "render"
    /\ UNCHANGED <<catalogVars, selected_templates, generated_content, usageVars,
                   current_panel, cursorVars, loading, generation_in_progress,
                   running, messageVars, gitignore_file, loaders, generators,
                   histVars>>

\* the highlighted Catalog entry, when the Select key toggles one
TogglesEntry(key) ==
    /\ current_panel = 1
    /\ key \in SelectKeys
    /\ filtered_templates # <<>>
    /\ template_selected < Len(filtered_templates)

ProbeAfterKey(key) ==
    IF ~TogglesEntry(key) \/ generators # <<>> THEN IdleProbe
    ELSE LET t == filtered_templates[template_selected + 1]
         IN  IF t \notin selected_templates
             THEN [st |-> "on", name |-> t, sel0 |-> selected_templates,
                   gen0 |-> generated_content]
             ELSE IF probe.st = "on" /\ probe.name = t
             THEN [probe EXCEPT !.st = "off"]
             ELSE IdleProbe

CleanAfterKey(key) ==
    /\ clean
    /\ generators = <<>>
    /\ current_panel = 1
    /\ key \in SelectKeys \cup {KeyUp, KeyDown}
    /\ TogglesEntry(key) => filtered_templates[template_selected + 1] \notin selected_templates

\* a key read by the main loop (line 1110)
KeyPress(key, io_ok) ==
    /\ mainpc = "input"
    /\ HandleInput(key, io_ok)
    /\ probe' = ProbeAfterKey(key)
    /\ clean' = CleanAfterKey(key)
    /\ toggled' =
          IF ~clean' THEN {}
          ELSE IF TogglesEntry(key)
          THEN toggled \cup {filtered_templates[template_selected + 1]}
          ELSE toggled

\* the keys _show_save_confirmation acts on (lines 784, 792, 795)
SaveChoiceKeys == {KeyY, KeyUpperY, KeyN, KeyUpperN, KeyEsc, ChA, KeyUpperA}

\* (a variant in which a key that is no choice cancels, for comparison)
SaveDialogKeyAnyCancels(key) ==
    /\ mainpc = "save_dialog"
    /\ IF key \in {KeyY, KeyUpperY}
       THEN /\ gitignore_file' =
                 [exists |-> TRUE,
                  data |-> OverwriteData(gitignore_file.data, selected_templates,
                                         generated_content)]
            /\ SetStatus("Overwritten")
            /\ mainpc' = "render"
       ELSE IF key \in {KeyN, KeyUpperN, KeyEsc}
       THEN /\ SetStatus("Save cancelled")
            /\ mainpc' = "render"
            /\ UNCHANGED gitignore_file
       ELSE IF key \in {ChA, KeyUpperA}
       THEN /\ Appends(gitignore_file.data) < MaxAppends
            /\ gitignore_file' =
                 [exists |-> TRUE,
                  data |-> AppendData(gitignore_file.data, selected_templates,
                                      generated_content)]
            /\ SetStatus("Appended")
            /\ mainpc' = "render"
       ELSE /\ SetStatus("Save cancelled")
            /\ mainpc' = "render"
            /\ UNCHANGED gitignore_file
    /\ UNCHANGED <<catalogVars, selected_templates, generated_content, usageVars,
                   current_panel, cursorVars, loading, generation_in_progress,
                   running, loaders, generators, histVars>>

\* the loop of lines 782-806
SaveDialogKey(key) ==
    /\ mainpc = "save_dialog"
    /\ IF key \in {KeyY, KeyUpperY}
       THEN /\ gitignore_file' =
                 [exists |-> TRUE,
                  data |-> OverwriteData(gitignore_file.data, selected_templates,
                                         generated_content)]
            /\ SetStatus("Overwritten")
            /\ mainpc' = "render"
       ELSE IF key \in {KeyN, KeyUpperN, KeyEsc}
       THEN /\ SetStatus("Save cancelled")
            /\ mainpc' = "render"
            /\ UNCHANGED gitignore_file
       ELSE IF key \in {ChA, KeyUpperA}
       THEN /\ Appends(gitignore_file.data) < MaxAppends
            /\ gitignore_file' =
                 [exists |-> TRUE,
                  data |-> AppendData(gitignore_file.data, selected_templates,
                                      generated_content)]
            /\ SetStatus("Appended")
            /\ mainpc' = "render"
       ELSE UNCHANGED <<gitignore_file, messageVars, mainpc>>
    /\ UNCHANGED <<catalogVars, selected_templates, generated_content, usageVars,
                   current_panel, cursorVars, loading, generation_in_progress,
                   running, loaders, generators, histVars>>

\* the loop of lines 1072-1075: any key closes the dialog
InfoDialogKey ==
    /\ mainpc = "info_dialog"
    /\ mainpc' = "render"
    /\ UNCHANGED <<catalogVars, selected_templates, generated_content, usageVars,
                   current_panel, cursorVars, loading, generation_in_progress,
                   running, messageVars, gitignore_file, loaders, generators,
                   histVars>>

(***************************************************************************)
(* What the remote service lists.                                          *)
(***************************************************************************)
NameAB == <<ChA, ChB>>
NameB == <<ChB>>

\* GET {BASE_URL}/list answers "ab,b"
ListAB == <<NameAB, NameB>>

\* ... or, after the catalog changed, "b"
ListB == <<NameB>>

\* ... or "a,ab,b"
ListAABB == <<<<ChA>>, NameAB, NameB>>

\* ... or "b,A,a,b": a name twice, and two names that differ in case only
ListCase == <<NameB, <<KeyUpperA>>, <<ChA>>, NameB>>

(***************************************************************************)
(* Spec: selecting and regenerating. The catalog is loaded once at         *)
(* startup; the user moves in the Catalog panel and toggles entries;       *)
(* regenerations succeed or fail.                                          *)
(***************************************************************************)
GenThreads ==
    \/ \E i \in 1..MaxGen : GenStart(i)
    \/ \E i \in 1..MaxGen : GenPlaceholder(i)
    \/ \E i \in 1..MaxGen : GenSnap(i)
    \/ \E i \in 1..MaxGen : GenReturnOk(i)

LoadThreads ==
    \/ \E i \in 1..MaxLoad : LoadFilter(i)
    \/ \E i \in 1..MaxLoad : LoadFinish(i)

CatalogKeys == {KeySpace, KeyDown}

Init == InitWith({NoUsageFile}, {NoFile})

Next ==
    \/ Render
    \/ NoKey
    \/ \E key \in CatalogKeys : KeyPress(key, TRUE)
    \/ \E i \in 1..MaxLoad : LoadFetchOk(i, ListAB)
    \/ \E i \in 1..MaxGen : GenReturnFail(i)
    \/ GenThreads
    \/ LoadThreads

Spec == Init /\ [][Next]_vars

(***************************************************************************)
(* SpecRefresh: as Spec, with r; the service lists "ab,b" or "b", or the   *)
(* request fails.                                                          *)
(***************************************************************************)
RefreshKeys == {KeySpace, KeyDown, KeyR}

NextRefresh ==
    \/ Render
    \/ NoKey
    \/ \E key \in RefreshKeys : KeyPress(key, TRUE)
    \/ \E i \in 1..MaxLoad : \E list \in {ListAB, ListB} : LoadFetchOk(i, list)
    \/ \E i \in 1..MaxLoad : LoadFetchFail(i)
    \/ GenThreads
    \/ LoadThreads

SpecRefresh == Init /\ [][NextRefresh]_vars

(***************************************************************************)
(* SpecReload: moving in the Catalog panel and refreshing, with nothing    *)
(* selected; the service lists "a,ab,b" or "b", or the request fails.      *)
(***************************************************************************)
ReloadKeys == {KeyDown, KeyUp, KeyR}

NextReload ==
    \/ Render
    \/ NoKey
    \/ \E key \in ReloadKeys : KeyPress(key, TRUE)
    \/ \E i \in 1..MaxLoad : \E list \in {ListAABB, ListB} : LoadFetchOk(i, list)
    \/ \E i \in 1..MaxLoad : LoadFetchFail(i)
    \/ LoadThreads

SpecReload == Init /\ [][NextReload]_vars

(***************************************************************************)
(* SpecSave: as Spec, with s and the save-conflict dialog; the output file *)
(* is absent or already there at startup.                                  *)
(***************************************************************************)
OrigFile == [exists |-> TRUE, data |-> OrigBytes]

SaveKeys == {KeySpace, KeyS}

DialogKeys == {KeyY, KeyN, KeyEsc, ChA, KeySpace}

InitSave == InitWith({NoUsageFile}, {NoFile, OrigFile})

NextSave ==
    \/ Render
    \/ NoKey
    \/ \E key \in SaveKeys : KeyPress(key, TRUE)
    \/ \E key \in DialogKeys : SaveDialogKey(key)
    \/ \E i \in 1..MaxLoad : LoadFetchOk(i, ListAB)
    \/ GenThreads
    \/ LoadThreads

SpecSave == InitSave /\ [][NextSave]_vars

(***************************************************************************)
(* SpecDialog: the two dialogs, from a session in which entries of the     *)
(* catalog "ab,b" were selected and their content generated; the output    *)
(* file is absent or already there. The user changes panel, saves and      *)
(* opens the info dialog.                                                  *)
(***************************************************************************)
MainKeys == {KeyTab, KeyS, KeyI}

InitDialogIn(panel) ==
    /\ templates = ListAB
    /\ filtered_templates = templates
    /\ filter_text = <<>>
    /\ selected_templates \in (SUBSET Range(templates)) \ {{}}
    /\ generated_content = Regenerated(selected_templates)
    /\ template_usage = [n \in selected_templates |-> 1]
    /\ recently_used = SortedSet(selected_templates)
    /\ usage_file = StoredUsage(template_usage, recently_used)
    /\ gitignore_file \in {NoFile, OrigFile}
    /\ current_panel = panel
    /\ template_selected \in 0..(Len(templates) - 1)
    /\ template_scroll = 0
    /\ selected_index = 0
    /\ selected_scroll = 0
    /\ content_scroll = 0
    /\ loading = FALSE
    /\ generation_in_progress = FALSE
    /\ running = TRUE
    /\ status_message = "Generated content"
    /\ error_message = ""
    /\ message_expired = FALSE
    /\ loaders = <<>>
    /\ generators = <<>>
    /\ mainpc = "render"
    /\ clean = FALSE
    /\ toggled = {}
    /\ probe = IdleProbe

InitDialog == InitDialogIn(1)

NextDialog ==
    \/ Render
    \/ NoKey
    \/ \E key \in MainKeys : KeyPress(key, TRUE)
    \/ \E key \in DialogKeys : SaveDialogKey(key)
    \/ InfoDialogKey

SpecDialog == InitDialog /\ [][NextDialog]_vars

(***************************************************************************)
(* SpecPanels: the catalog "ab,b" is loaded at startup; the user changes   *)
(* panel with Tab and /, and presses the quit keys.                        *)
(***************************************************************************)
QuitKeys == {KeyQ, KeyUpperQ, KeyEsc}

PanelKeys == {KeyTab, KeySlash, KeyQ, KeyEsc}

NextPanels ==
    \/ Render
    \/ NoKey
    \/ \E key \in PanelKeys : KeyPress(key, TRUE)
    \/ \E i \in 1..MaxLoad : LoadFetchOk(i, ListAB)
    \/ LoadThreads

SpecPanels == Init /\ [][NextPanels]_vars

(***************************************************************************)
(* SpecMessage: the catalog is loaded at startup and on r, or the request  *)
(* fails; time passes; the user presses r and a key that is bound to       *)
(* nothing.                                                                *)
(***************************************************************************)
MessageKeys == {KeyR, KeyX}

NextMessage ==
    \/ Render
    \/ NoKey
    \/ FiveSecondsPass
    \/ \E key \in MessageKeys : KeyPress(key, TRUE)
    \/ \E i \in 1..MaxLoad : LoadFetchOk(i, ListAB)
    \/ \E i \in 1..MaxLoad : LoadFetchFail(i)
    \/ LoadThreads

SpecMessage == Init /\ [][NextMessage]_vars

(***************************************************************************)
(* SpecRace: as SpecMessage without the clock, with the failure of a load  *)
(* taken statement by statement.                                           *)
(***************************************************************************)
RaceKeys == {KeyR}

NextRace ==
    \/ Render
    \/ NoKey
    \/ \E key \in RaceKeys : KeyPress(key, TRUE)
    \/ \E i \in 1..MaxLoad : LoadFetchOk(i, ListAB)
    \/ \E i \in 1..MaxLoad : LoadFailSetError(i)
    \/ \E i \in 1..MaxLoad : LoadFailClearStatus(i)
    \/ LoadThreads

SpecRace == Init /\ [][NextRace]_vars

(***************************************************************************)
(* SpecPersist: as Spec, with a usage file that can or cannot be written   *)
(* at each toggle-in.                                                      *)
(***************************************************************************)
NextPersist ==
    \/ Render
    \/ NoKey
    \/ \E key \in CatalogKeys : \E io_ok \in BOOLEAN : KeyPress(key, io_ok)
    \/ \E i \in 1..MaxLoad : LoadFetchOk(i, ListAB)
    \/ GenThreads
    \/ LoadThreads

SpecPersist == Init /\ [][NextPersist]_vars

(***************************************************************************)
(* SpecCatalog: loading and refreshing; the service answers "ab,b" or      *)
(* "b,A,a,b".                                                              *)
(***************************************************************************)
NextCatalog ==
    \/ Render
    \/ NoKey
    \/ \E key \in ReloadKeys : KeyPress(key, TRUE)
    \/ \E i \in 1..MaxLoad : \E list \in {ListAB, ListCase} : LoadFetchOk(i, list)
    \/ LoadThreads

SpecCatalog == Init /\ [][NextCatalog]_vars

(***************************************************************************)
(* SpecSearch: the catalog "a,ab,b" is loaded at startup; the user moves   *)
(* in the Catalog panel, enters the Search panel with /, types and         *)
(* deletes.                                                                *)
(***************************************************************************)
SearchKeys == {KeyDown, KeySlash, KeyUpperA, ChB, KeyBackspace}

NextSearch ==
    \/ Render
    \/ NoKey
    \/ \E key \in SearchKeys : KeyPress(key, TRUE)
    \/ \E i \in 1..MaxLoad : LoadFetchOk(i, ListAABB)
    \/ LoadThreads

SpecSearch == Init /\ [][NextSearch]_vars

(***************************************************************************)
(* SpecSelected: the Selected panel. The state is one the program is in    *)
(* after the user toggled some names of a catalog of MaxSel names in,      *)
(* waited for the regeneration and came to the Selected panel: the cursor  *)
(* is on an entry; the scroll offset shows it, or is the stale one left    *)
(* when the list shrank under a cursor on its last entry. The user removes *)
(* entries and clears.                                                     *)
(***************************************************************************)
\* "B", "c", "D", "e", ...: code-point order and case-insensitive order differ
SelName(i) == <<IF i % 2 = 1 THEN KeyUpperA + i ELSE ChA + i>>

SelCatalog == SortByLower(SortedSet({SelName(i) : i \in 1..MaxSel}))

Reverse(s) == [i \in 1..Len(s) |-> s[Len(s) + 1 - i]]

SelectedKeys == {KeySpace, KeyC}

InitSelectedIn(panel, cursors) ==
    /\ templates = SelCatalog
    /\ filtered_templates = templates
    /\ filter_text = <<>>
    /\ selected_templates \in SUBSET Range(templates)
    /\ generated_content = Regenerated(selected_templates)
    /\ template_usage = [n \in selected_templates |-> 1]
    /\ recently_used = Reverse(SortedSet(selected_templates))
    /\ usage_file = StoredUsage(template_usage, recently_used)
    /\ gitignore_file = NoFile
    /\ current_panel = panel
    /\ template_selected \in cursors
    /\ template_scroll = ScrollTo(0, template_selected, CatalogVisible)
    /\ selected_index \in 0..Max2(0, Cardinality(selected_templates) - 1)
    /\ selected_scroll \in 0..Max2(0, MaxSel - SelectedVisible)
    /\ \/ selected_scroll <= selected_index /\ selected_index < selected_scroll + SelectedVisible
       \/ selected_index < selected_scroll /\ selected_index = Cardinality(selected_templates) - 1
    /\ content_scroll = 0
    /\ loading = FALSE
    /\ generation_in_progress = FALSE
    /\ running = TRUE
    /\ status_message = "Generated content"
    /\ error_message = ""
    /\ message_expired = FALSE
    /\ loaders = <<>>
    /\ generators = <<>>
    /\ mainpc = "render"
    /\ clean = FALSE
    /\ toggled = {}
    /\ probe = IdleProbe

InitSelected == InitSelectedIn(2, {0})

NextSelected ==
    \/ Render
    \/ NoKey
    \/ \E key \in SelectedKeys : KeyPress(key, TRUE)
    \/ GenThreads

SpecSelected == InitSelected /\ [][NextSelected]_vars

(***************************************************************************)
(* SpecUsage: as Spec, started with each kind of usage file: none, one     *)
(* that cannot be parsed, and readable ones whose recently_used list is    *)
(* empty, short, full, longer than the cap, or holds a name twice.         *)
(***************************************************************************)
\* n distinct names that are not in the catalog: "c", "d", ...
RecentOf(n) == [i \in 1..n |-> <<ChB + i>>]

UsageFiles ==
    {NoUsageFile, CorruptUsageFile,
     StoredUsage(EmptyDict, <<>>),
     StoredUsage([n \in {NameB} |-> 1], <<NameB>>),
     StoredUsage(EmptyDict, RecentOf(RecentCap)),
     StoredUsage(EmptyDict, RecentOf(RecentCap + 1)),
     StoredUsage([n \in {NameB} |-> 1], <<NameB, NameB>>)}

InitUsage == InitWith(UsageFiles, {NoFile})

SpecUsage == InitUsage /\ [][Next]_vars

(***************************************************************************)
(* SpecStartup: as Spec, for every shape of the usage file found at        *)
(* startup.                                                                *)
(***************************************************************************)
StartupUsageFiles ==
    {NoUsageFile, CorruptUsageFile, NotObjectUsageFile,
     UsageNotDictFile(<<NameB>>),
     RecentNotListFile([n \in {NameB} |-> 1]),
     StoredUsage([n \in {NameB} |-> 1], <<NameB>>)}

InitStartup == InitWith(StartupUsageFiles, {NoFile})

SpecStartup == InitStartup /\ [][Next]_vars

(***************************************************************************)
(* SpecFilter: the filter as a function of its inputs. The catalog, the    *)
(* filter text and the usage counts are drawn from bounded sets, in the    *)
(* state the program is in once the catalog is loaded and the text typed   *)
(* in the Search panel; the user types and deletes.                        *)
(***************************************************************************)
NamePool ==
    {<<ChA>>, <<ChA, ChB>>, <<KeyUpperA, ChB>>, <<ChB>>, <<ChB, ChA>>, <<ChA, ChB, ChA>>}

Catalogs ==
    {SortByLower(SortedSet(S)) : S \in {T \in SUBSET NamePool : Cardinality(T) <= MaxCat}}

\* the characters typed: an upper-case one, which the matcher lower-cases
TypedChars == {KeyUpperA, ChB}

FilterTexts == UNION {[1..n -> TypedChars] : n \in 0..MaxFilterLen}

InitFilterWith(catalogs, texts) ==
    /\ templates \in catalogs
    /\ filter_text \in texts
    /\ template_usage \in [Range(templates) -> 0..MaxUsage]
    /\ recently_used = <<>>
    /\ usage_file = StoredUsage(template_usage, recently_used)
    /\ gitignore_file = NoFile
    /\ filtered_templates = FilteredList(templates, filter_text, template_usage)
    /\ selected_templates = {}
    /\ generated_content = EmptyContent
    /\ current_panel = 0
    /\ template_selected = 0
    /\ template_scroll = 0
    /\ selected_index = 0
    /\ selected_scroll = 0
    /\ content_scroll = 0
    /\ loading = FALSE
    /\ generation_in_progress = FALSE
    /\ running = TRUE
    /\ status_message = "Loaded templates"
    /\ error_message = ""
    /\ message_expired = FALSE
    /\ loaders = <<>>
    /\ generators = <<>>
    /\ mainpc = "render"
    /\ clean = FALSE
    /\ toggled = {}
    /\ probe = IdleProbe

InitFilter == InitFilterWith(Catalogs, FilterTexts)

NextFilter ==
    \/ Render
    \/ NoKey
    \/ \E key \in TypedChars \cup {KeyBackspace} : KeyPress(key, TRUE)

SpecFilter == InitFilter /\ [][NextFilter]_vars

(***************************************************************************)
(* SpecFuzzy: the matcher as a function of its inputs. As SpecFilter, with *)
(* a catalog of one name: every text of up to MaxTextLen characters.       *)
(***************************************************************************)
\* the characters of a candidate text: "A", "b", "c"
TextChars == {KeyUpperA, ChB, KeyC}

CandidateTexts == UNION {[1..n -> TextChars] : n \in 1..MaxTextLen}

InitFuzzy == InitFilterWith({<<t>> : t \in CandidateTexts}, FilterTexts)

SpecFuzzy == InitFuzzy /\ [][NextFilter]_vars

C2_LastWriteObserved ==
    [][\A i \in 1..Len(generators) :
          (/\ generators[i].pc = "call"
           /\ generators' = RemoveAt(generators, i)
           /\ status_message' = "Generated content")
          => generated_content' = get_templates(generators[i].list)]_vars

\* C2's reachable state: every regeneration has finished and the content is
\* the remote content of another, earlier selection than the current one
C2_StaleContentWitness ==
    /\ generators = <<>>
    /\ selected_templates # {}
    /\ generated_content # Regenerated(selected_templates)
    /\ \E earlier \in (SUBSET Range(templates)) \ {{}, selected_templates} :
          generated_content = Regenerated(earlier)

\* C8: while templates are toggled in one at a time, each regeneration
\* finished before the next key, the SelectionSet is the set of toggled names,
\* a running regeneration requests the sorted selection, and once it has
\* finished the GeneratedContent is the remote response for the sorted
\* selection, verbatim.
C8_SequentialToggleIns ==
    clean =>
        /\ selected_templates = toggled
        /\ \A i \in 1..Len(generators) :
              generators[i].pc = "call" =>
                 /\ Range(generators[i].list) = selected_templates
                 /\ \A j, k \in 1..Len(generators[i].list) :
                       j < k => StrLess(generators[i].list[j], generators[i].list[k])
        /\ (generators = <<>> /\ selected_templates # {}) =>
              generated_content = RemoteResponse(SortedSet(selected_templates))

C8_Witness ==
    /\ clean
    /\ generators = <<>>
    /\ Cardinality(selected_templates) = 2
    /\ generated_content = RemoteResponse(<<NameAB, NameB>>)

C4_RecentWellFormed ==
    /\ Len(recently_used) <= RecentCap
    /\ \A i, j \in 1..Len(recently_used) : i # j => recently_used[i] # recently_used[j]

(***************************************************************************)
(* Properties of the catalog and the cursors (checked under SpecRefresh).  *)
(***************************************************************************)
\* C5: the filtered list is a subset of the current catalog and is the
\* ranking of the current catalog under the current filter text and usage
\* counts, in every state.
C5_FilteredDerived ==
    /\ Range(filtered_templates) \subseteq Range(templates)
    /\ filtered_templates = FilteredList(templates, filter_text, template_usage)

\* C6: the Catalog cursor is in [0, len(filtered list) - 1] and the Selected
\* cursor in [0, |SelectionSet| - 1], each 0 when its list is empty, in every
\* state.
C6_CursorsInRange ==
    /\ template_selected >= 0
    /\ template_selected <= Max2(0, Len(filtered_templates) - 1)
    /\ selected_index >= 0
    /\ selected_index <= Max2(0, Cardinality(selected_templates) - 1)

\* C7: the application never terminates other than by the quit key; the
\* Select key in the Catalog panel never indexes the filtered list out of
\* range.
C7_OnlyQuitTerminates == mainpc # "crashed"

(***************************************************************************)
(* Properties of the filter (checked under SpecFilter).                    *)
(***************************************************************************)
\* C9: a catalog entry the fuzzy matcher does not match for the filter text
\* is not in the filtered list produced for that text.
C9_NoMatchNotListed ==
    \A t \in Range(templates) :
        ~fuzzy_search(filter_text, t).match => t \notin Range(filtered_templates)

C9_Witness ==
    /\ filter_text # <<>>
    /\ filtered_templates # <<>>
    /\ \E t \in Range(templates) : ~fuzzy_search(filter_text, t).match

PositionIn(list, x) == CHOOSE i \in 1..Len(list) : list[i] = x

RaisedUsage(usage, x, by) ==
    [n \in DOMAIN usage |-> IF n = x THEN usage[n] + by ELSE usage[n]]

\* C10: of two listed candidates with the same fuzzy score, the one that is
\* ahead of the other stays ahead of it in the list re-filtered after its
\* usage count alone was raised.
C10_UsageBoostMonotonic ==
    \A x, y \in Range(filtered_templates) :
        (/\ x # y
         /\ fuzzy_search(filter_text, x).score = fuzzy_search(filter_text, y).score
         /\ PositionIn(filtered_templates, x) < PositionIn(filtered_templates, y))
        => \A by \in 1..MaxUsage :
              LET refiltered ==
                    FilteredList(templates, filter_text, RaisedUsage(template_usage, x, by))
              IN  PositionIn(refiltered, x) < PositionIn(refiltered, y)

\* two candidates with the same fuzzy score that the usage counts order
C10_Witness ==
    /\ filter_text # <<>>
    /\ \E x, y \in Range(filtered_templates) :
          /\ x # y
          /\ fuzzy_search(filter_text, x).score = fuzzy_search(filter_text, y).score
          /\ template_usage[x] > template_usage[y]
          /\ PositionIn(filtered_templates, x) < PositionIn(filtered_templates, y)
          /\ StrLess(Lower(y), Lower(x))

\* final_score = matchScore + usage_count * 10
FinalScore(t) == fuzzy_search(filter_text, t).score + UsageOf(template_usage, t) * 10

\* descending final_score, ties in ascending case-insensitive name
RankedByFinalScore(list) ==
    \A i, j \in 1..Len(list) :
        i < j =>
           \/ FinalScore(list[i]) > FinalScore(list[j])
           \/ /\ FinalScore(list[i]) = FinalScore(list[j])
              /\ ~StrLess(Lower(list[j]), Lower(list[i]))

\* C11 as stated: for every filter text, the empty one too, the filtered
\* list is sorted by descending final_score, ties by ascending
\* case-insensitive name.
C11_RankedForEveryText == RankedByFinalScore(filtered_templates)

\* C11 amended: for every non-empty filter text the filtered list is sorted
\* by descending final_score, ties by ascending case-insensitive name; for
\* the empty filter text it is the catalog in the catalog's order
\* (case-insensitive names, whatever the usage counts).
C11_RankedForNonEmptyText ==
    /\ filter_text # <<>> => RankedByFinalScore(filtered_templates)
    /\ filter_text = <<>> =>
          /\ filtered_templates = templates
          /\ \A i, j \in 1..Len(filtered_templates) :
                i < j => ~StrLess(Lower(filtered_templates[j]), Lower(filtered_templates[i]))

\* a list in which the usage counts put a later name first
C11_Witness ==
    /\ filter_text # <<>>
    /\ \E i, j \in 1..Len(filtered_templates) :
          /\ i < j
          /\ FinalScore(filtered_templates[i]) > FinalScore(filtered_templates[j])
          /\ StrLess(Lower(filtered_templates[j]), Lower(filtered_templates[i]))
          /\ fuzzy_search(filter_text, filtered_templates[i]).score
                < fuzzy_search(filter_text, filtered_templates[j]).score

(***************************************************************************)
(* Properties of the matcher (checked under SpecFuzzy).                    *)
(***************************************************************************)
\* the 0-based positions at which q occurs in t as a contiguous substring
Occurrences(q, t) ==
    {i \in 0..(Len(t) - Len(q)) : SubSeq(t, i + 1, i + Len(q)) = q}

\* C12: fuzzy_search returns (match, 0) for the empty query, and for a
\* non-empty query that is a case-insensitive contiguous substring of the
\* text a match with score 1000 minus the index of the first occurrence.
C12_EmptyAndSubstringScore ==
    \A text \in Range(templates) :
        LET q == Lower(filter_text)
            occ == Occurrences(q, Lower(text))
            r == fuzzy_search(filter_text, text)
        IN  /\ filter_text = <<>> => r.match /\ r.score = 0
            /\ (filter_text # <<>> /\ occ # {}) =>
                  /\ r.match
                  /\ \E first \in occ :
                        /\ \A i \in occ : first <= i
                        /\ r.score = 1000 - first

\* a query that occurs twice in the text, the first time not at the start
C12_Witness ==
    \E text \in Range(templates) :
        LET occ == Occurrences(Lower(filter_text), Lower(text))
        IN  /\ filter_text # <<>>
            /\ Lower(filter_text) # filter_text
            /\ Cardinality(occ) >= 2
            /\ 0 \notin occ
            /\ fuzzy_search(filter_text, text).score < 1000

\* the ways the characters of q occur in order in t: the 0-based positions
Embeddings(q, t) ==
    {f \in [1..Len(q) -> 0..(Len(t) - 1)] :
        /\ \A i \in 1..Len(q) : t[f[i] + 1] = q[i]
        /\ \A i, j \in 1..Len(q) : i < j => f[i] < f[j]}

\* the leftmost greedy one: each position the least possible
Leftmost(q, t) ==
    CHOOSE f \in Embeddings(q, t) :
        \A g \in Embeddings(q, t) : \A i \in 1..Len(q) : f[i] <= g[i]

RECURSIVE PositionScore(_, _)
PositionScore(f, n) == IF n = 0 THEN 0 ELSE (100 - f[n]) + PositionScore(f, n - 1)

\* C13: for a non-empty query that is not a contiguous substring of the
\* text, fuzzy_search reports a match exactly when the query's characters
\* occur in order (case-insensitively) in the text, with score the sum of
\* (100 - position) over the leftmost greedy positions; otherwise no match
\* and score 0.
C13_SubsequenceScore ==
    \A text \in Range(templates) :
        LET q == Lower(filter_text)
            t == Lower(text)
            r == fuzzy_search(filter_text, text)
        IN  (filter_text # <<>> /\ Occurrences(q, t) = {}) =>
               IF Embeddings(q, t) # {}
               THEN r.match /\ r.score = PositionScore(Leftmost(q, t), Len(q))
               ELSE ~r.match /\ r.score = 0

\* a subsequence match with more than one way to embed the query
C13_Witness ==
    \E text \in Range(templates) :
        LET q == Lower(filter_text)
            t == Lower(text)
        IN  /\ Len(q) >= 2
            /\ Occurrences(q, t) = {}
            /\ Cardinality(Embeddings(q, t)) >= 2
            /\ fuzzy_search(filter_text, text).match
            /\ fuzzy_search(filter_text, text).score = PositionScore(Leftmost(q, t), Len(q))

C15_CatalogSelectToggles ==
    [][\A key \in SelectKeys :
          (KeyPress(key, TRUE) /\ TogglesEntry(key)) =>
             LET t == filtered_templates[template_selected + 1]
             IN  /\ Len(generators') = Len(generators) + 1
                 /\ SubSeq(generators', 1, Len(generators)) = generators
                 /\ generators'[Len(generators')].pc = "start"
                 /\ IF t \notin selected_templates
                    THEN /\ selected_templates' = selected_templates \cup {t}
                         /\ DOMAIN template_usage' = DOMAIN template_usage \cup {t}
                         /\ template_usage'[t] = UsageOf(template_usage, t) + 1
                         /\ \A n \in DOMAIN template_usage \ {t} :
                               template_usage'[n] = template_usage[n]
                         /\ recently_used'[1] = t
                         /\ Tail(recently_used') =
                               SelectSeq(recently_used, LAMBDA n : n # t)
                    ELSE /\ selected_templates' = selected_templates \ {t}
                         /\ template_usage' = template_usage
                         /\ recently_used' = recently_used]_vars

\* both happened: a second name was toggled in, ahead of the first in the
\* recently-used list, and a name used twice is toggled out
C15_Witness ==
    /\ Len(recently_used) = 2
    /\ recently_used[1] \in selected_templates
    /\ recently_used[2] \notin selected_templates
    /\ UsageOf(template_usage, recently_used[2]) = 2
    /\ generators # <<>>

\* C16: the Select key in the Selected panel removes from the SelectionSet
\* exactly the entry at the cursor position of the sorted selected list, which
\* is the entry drawn highlighted, and nothing else; it re-clamps the Selected
\* cursor into range and starts one regeneration.
C16_SelectedRemoveAtCursor ==
    [][\A key \in SelectKeys :
          (KeyPress(key, TRUE) /\ current_panel = 2 /\ selected_templates # {}) =>
             LET selected_list == SortedSet(selected_templates)
             IN  /\ selected_index < Len(selected_list)
                 /\ HighlightedSelected(selected_templates, selected_index,
                                        selected_scroll, current_panel)
                       = {selected_list[selected_index + 1]}
                 /\ selected_templates' =
                       selected_templates \ {selected_list[selected_index + 1]}
                 /\ selected_index' >= 0
                 /\ selected_index' <= Max2(0, Cardinality(selected_templates') - 1)
                 /\ selected_index < Cardinality(selected_templates') =>
                       selected_index' = selected_index
                 /\ Len(generators') = Len(generators) + 1
                 /\ SubSeq(generators', 1, Len(generators)) = generators
                 /\ generators'[Len(generators')].pc = "start"]_vars

\* an entry was removed from the end of the list and the cursor stepped back
C16_Witness ==
    /\ current_panel = 2
    /\ Cardinality(selected_templates) = 2
    /\ selected_index = 1
    /\ generators # <<>>
    /\ \E n \in DOMAIN template_usage :
          /\ n \notin selected_templates
          /\ \A m \in selected_templates : StrLess(m, n)

(***************************************************************************)
(* Properties of the command keys.                                         *)
(***************************************************************************)
\* C19: the c command (c pressed while Search is not the active panel)
\* empties the SelectionSet, sets the GeneratedContent to the empty string
\* and the Selected panel's cursor and scroll to 0, and leaves the catalog,
\* the filter text, the filtered list, the active panel and the usage record.
C19_ClearFrame ==
    [][(KeyPress(KeyC, TRUE) /\ current_panel # 0) =>
          /\ selected_templates' = {}
          /\ generated_content' = <<>>
          /\ selected_index' = 0
          /\ selected_scroll' = 0
          /\ UNCHANGED <<templates, filter_text, filtered_templates, current_panel,
                         template_usage, recently_used, usage_file>>]_vars

\* cleared, with the usage record of the names that were selected
C19_Witness ==
    /\ status_message = "Cleared all selections"
    /\ selected_templates = {}
    /\ generated_content = <<>>
    /\ Len(recently_used) = MaxSel
    /\ selected_index = 0
    /\ selected_scroll = 0

(***************************************************************************)
(* Properties of typing (checked under SpecSearch).                        *)
(***************************************************************************)
\* the entries of the whole catalog the matcher matches for the text
MatchedOf(text) == {t \in Range(templates) : fuzzy_search(text, t).match}

\* C17: while Search is active a printable key appends its character to the
\* filter text and Backspace removes the last character (and changes nothing
\* when the text is empty); after either edit the filtered list is the
\* re-filter of the full catalog under the new text and the Catalog cursor
\* and scroll are 0.
C17_SearchEdits ==
    [][current_panel = 0 =>
          /\ \A key \in {KeyUpperA, ChB} :
                KeyPress(key, TRUE) =>
                   /\ filter_text' = filter_text \o <<key>>
                   /\ filtered_templates' =
                         FilterTemplates(templates, filter_text', template_usage, 0).list
                   /\ Range(filtered_templates') = MatchedOf(filter_text')
                   /\ template_selected' = 0
                   /\ template_scroll' = 0
          /\ \A key \in {KeyBackspace8, KeyBackspace} :
                KeyPress(key, TRUE) =>
                   IF filter_text = <<>>
                   THEN UNCHANGED <<filter_text, filtered_templates,
                                    template_selected, template_scroll>>
                   ELSE /\ Len(filter_text') = Len(filter_text) - 1
                        /\ filter_text' \o <<filter_text[Len(filter_text)]>> = filter_text
                        /\ filtered_templates' =
                              FilterTemplates(templates, filter_text', template_usage, 0).list
                        /\ Range(filtered_templates') = MatchedOf(filter_text')
                        /\ template_selected' = 0
                        /\ template_scroll' = 0]_vars

\* a character was deleted from a two-character text; the list is the
\* re-filter under the one left, which drops an entry of the catalog
C17_Witness ==
    /\ current_panel = 0
    /\ filter_text = <<KeyUpperA>>
    /\ Len(templates) = 3
    /\ Len(filtered_templates) = 2
    /\ template_selected = 0
    /\ template_scroll = 0
    /\ mainpc = "render"

(***************************************************************************)
(* SpecReselect: as SpecReload, from a session in which entries of the     *)
(* catalog "ab,b" were selected and their content generated.               *)
(***************************************************************************)
InitReselect ==
    /\ templates = ListAB
    /\ filtered_templates = templates
    /\ filter_text = <<>>
    /\ selected_templates \in (SUBSET Range(templates)) \ {{}}
    /\ generated_content = Regenerated(selected_templates)
    /\ template_usage = [n \in selected_templates |-> 1]
    /\ recently_used = Reverse(SortedSet(selected_templates))
    /\ usage_file = StoredUsage(template_usage, recently_used)
    /\ gitignore_file = NoFile
    /\ current_panel = 1
    /\ template_selected \in 0..(Len(templates) - 1)
    /\ template_scroll = 0
    /\ selected_index = 0
    /\ selected_scroll = 0
    /\ content_scroll = 0
    /\ loading = FALSE
    /\ generation_in_progress = FALSE
    /\ running = TRUE
    /\ status_message = "Generated content"
    /\ error_message = ""
    /\ message_expired = FALSE
    /\ loaders = <<>>
    /\ generators = <<>>
    /\ mainpc = "render"
    /\ clean = FALSE
    /\ toggled = {}
    /\ probe = IdleProbe

SpecReselect == InitReselect /\ [][NextReload]_vars

(***************************************************************************)
(* Properties of refreshing (checked under SpecReselect).                  *)
(***************************************************************************)
\* C18: outside Search, r sets the loading flag and starts one more
\* catalog-load thread, and neither that key nor any later step of a
\* catalog load (the fetch, its failure, the re-filter, the end of the load)
\* changes the selection set or the generated content, whatever the new
\* catalog lists.
C18_RefreshFrame ==
    [][/\ (KeyPress(KeyR, TRUE) /\ current_panel # 0) =>
              /\ loading'
              /\ loaders' = Append(loaders, NewLoader)
              /\ UNCHANGED <<selected_templates, generated_content>>
       /\ (loaders' # loaders) =>
              UNCHANGED <<selected_templates, generated_content>>]_vars

\* a refresh has completed with a catalog that no longer lists a selected
\* name, and the selection and its content are still there
C18_Witness ==
    /\ loaders = <<>>
    /\ ~loading
    /\ status_message = "Loaded templates"
    /\ templates = ListB
    /\ filtered_templates = ListB
    /\ selected_templates = {NameAB}
    /\ generated_content = Regenerated({NameAB})

C21_DialogKeys ==
    [][/\ (mainpc = "save_dialog" /\ mainpc' # "save_dialog") =>
              \E key \in SaveChoiceKeys : SaveDialogKey(key)
       /\ \A key \in DialogKeys \ SaveChoiceKeys :
              SaveDialogKey(key) =>
                 /\ mainpc' = "save_dialog"
                 /\ UNCHANGED <<current_panel, cursorVars, catalogVars,
                                selected_templates, gitignore_file, usage_file,
                                messageVars, generated_content>>
       /\ InfoDialogKey =>
              /\ mainpc' = "render"
              /\ UNCHANGED <<catalogVars, selected_templates, generated_content,
                             usageVars, current_panel, cursorVars, loading,
                             running, messageVars, gitignore_file, loaders,
                             generators>>
       /\ (mainpc = "info_dialog" /\ mainpc' # "info_dialog") => InfoDialogKey]_vars

\* the save-conflict dialog was left by Cancel, with the file as it was, in
\* a panel reached with Tab
C21_Witness ==
    /\ status_message = "Save cancelled"
    /\ gitignore_file = OrigFile
    /\ current_panel = 3
    /\ mainpc = "input"

(***************************************************************************)
(* Properties of the panel and quit keys (checked under SpecPanels).       *)
(***************************************************************************)
\* C22: q, Q or Esc pressed in a panel other than Search clears the running
\* flag and ends the loop; pressed in Search it is appended to the filter
\* text and the program keeps running; once the loop has ended no key is
\* handled (nothing changes any more), and the flag is clear only then.
C22_QuitKey ==
    [][/\ \A key \in QuitKeys :
              KeyPress(key, TRUE) =>
                 IF current_panel # 0
                 THEN /\ running' = FALSE
                      /\ mainpc' = "exited"
                 ELSE /\ filter_text' = filter_text \o <<key>>
                      /\ running' = TRUE
                      /\ mainpc' = "render"
       /\ mainpc = "exited" => UNCHANGED vars
       /\ running = FALSE => mainpc = "exited"]_vars

\* the program was quit after q and Esc were typed into the filter
C22_Witness ==
    /\ mainpc = "exited"
    /\ running = FALSE
    /\ filter_text = <<KeyQ, KeyEsc>>
    /\ current_panel # 0

\* C23: Tab moves the active panel one step in the order Search, Catalog,
\* Selected, Content, Search, from every panel, and changes nothing else;
\* four Tabs lead back to the panel they started from.
C23_TabCycles ==
    [][/\ KeyPress(KeyTab, TRUE) =>
              /\ current_panel' = IF current_panel = 3 THEN 0 ELSE current_panel + 1
              /\ UNCHANGED <<catalogVars, selected_templates, generated_content,
                             usageVars, cursorVars, loading, generation_in_progress,
                             running, messageVars, gitignore_file, loaders,
                             generators>>
       /\ NextPanel(NextPanel(NextPanel(NextPanel(current_panel)))) = current_panel]_vars

\* Search was entered with Tab from Content (the / key leaves its message)
C23_Witness ==
    /\ current_panel = 0
    /\ status_message = "Loaded templates"
    /\ mainpc = "render"

(***************************************************************************)
(* Properties of the messages (checked under SpecMessage).                 *)
(***************************************************************************)
\* C24: an error message is cleared once 5 seconds have passed since it was
\* set, whether or not a key is pressed: a pass of the main loop that reads no
\* key, made with an error message older than 5 seconds, clears it. A status
\* message stays until another message is set.
C24_MessageLifecycle ==
    [][/\ (NoKey /\ error_message # "" /\ message_expired) => error_message' = ""
       /\ (status_message # "" /\ status_message' # status_message) =>
              /\ ~message_expired'
              /\ status_message' # "" \/ error_message' # ""]_vars

(***************************************************************************)
(* Properties of the dialogs and the threads (checked under SpecSave).     *)
(***************************************************************************)
\* C25: while a dialog (save-conflict or info) is open no result of a
\* thread becomes visible: as long as the dialog stays open the generated
\* content and the selection, which Overwrite and Append write to the file,
\* are those of the moment it opened.
C25_ModalHidesResults ==
    [][(mainpc \in {"save_dialog", "info_dialog"} /\ mainpc' = mainpc) =>
           UNCHANGED <<generated_content, selected_templates>>]_vars

(***************************************************************************)
(* Properties of concurrent message writes (checked under SpecRace).       *)
(***************************************************************************)
\* C26: the writes of the status and error message by the main loop and by
\* the threads are atomic: in every state at most one of the two messages is
\* non-empty, and once every thread has finished the pair holds a message
\* (the last writer's: none is lost).
C26_MessagePairAtomic ==
    /\ ~(status_message # "" /\ error_message # "")
    /\ (loaders = <<>> /\ generators = <<>>) =>
           (status_message # "" \/ error_message # "")

(***************************************************************************)
(* Properties of the usage store (checked under SpecStartup).              *)
(***************************************************************************)
\* C27: loading the usage store never fails: whatever the usage file holds
\* (nothing, unreadable or invalid JSON, JSON of the wrong shape at the top
\* level or in its fields) startup proceeds: the program is not ended by an
\* exception. (Nothing else raises under SpecStartup.)
C27_UsageLoadNeverFails == mainpc # "crashed"

(***************************************************************************)
(* Properties of a failed save of the usage data (checked under            *)
(* SpecPersist).                                                           *)
(***************************************************************************)
\* C28: when the usage file cannot be written during a toggle-in, the
\* failure is reported as an error message and nothing else is lost: the name
\* is added to the selection, its count is raised by one and it heads the
\* recently-used list in memory, and the regeneration thread is started; the
\* file keeps what it held.
C28_PersistFailureIsWarning ==
    [][\A key \in SelectKeys :
          (KeyPress(key, FALSE) /\ TogglesEntry(key)) =>
             LET template == filtered_templates[template_selected + 1]
             IN  /\ template \notin selected_templates
                 /\ selected_templates' = selected_templates \cup {template}
                 /\ UsageOf(template_usage', template) = UsageOf(template_usage, template) + 1
                 /\ recently_used'[1] = template
                 /\ generators' = Append(generators, NewGenerator)
                 /\ error_message' = "Warning: Could not save usage data"
                 /\ status_message' = ""
                 /\ usage_file' = usage_file
                 /\ generated_content' = generated_content
                 /\ mainpc' = "render"]_vars

\* two toggle-ins, the first saved and the second not: the file holds one
\* count, the memory two, and both names are selected with their content
C28_Witness ==
    /\ selected_templates = {NameAB, NameB}
    /\ usage_file.kind = "data"
    /\ DOMAIN usage_file.usage = {NameAB}
    /\ DOMAIN template_usage = {NameAB, NameB}
    /\ generated_content = Regenerated(selected_templates)
    /\ generators = <<>>

(***************************************************************************)
(* Properties of a failed catalog load (checked under SpecReload).         *)
(***************************************************************************)
\* C29: when a catalog load fails, the catalog and the filtered list keep
\* the values they had, the loading flag becomes false, the failure is shown
\* as an error message, and the main loop goes on where it was (its keys,
\* r included, are handled as before).
C29_LoadFailureKeepsCatalog ==
    [][\A i \in 1..MaxLoad :
          LoadFetchFail(i) =>
             /\ templates' = templates
             /\ filtered_templates' = filtered_templates
             /\ loading' = FALSE
             /\ error_message' = "Failed to load templates"
             /\ status_message' = ""
             /\ mainpc' = mainpc
             /\ running' = running
             /\ UNCHANGED <<current_panel, cursorVars, selected_templates>>]_vars

\* a refresh failed with a catalog loaded before it: the catalog is still
\* there and r can be pressed again
C29_Witness ==
    /\ templates = ListAABB
    /\ filtered_templates = ListAABB
    /\ error_message = "Failed to load templates"
    /\ loaders = <<>>
    /\ ~loading
    /\ mainpc = "input"
    /\ ENABLED KeyPress(KeyR, TRUE)

(***************************************************************************)
(* Properties of the loaded catalog (checked under SpecCatalog).           *)
(***************************************************************************)
\* C30: after every successful load the catalog is in ascending order of the
\* lower-cased names and holds no two names that are equal when lower-cased.
C30_CatalogSortedUnique ==
    /\ \A i, j \in 1..Len(templates) :
          i < j => ~StrLess(Lower(templates[j]), Lower(templates[i]))
    /\ \A i, j \in 1..Len(templates) :
          i # j => Lower(templates[i]) # Lower(templates[j])

(***************************************************************************)
(* SpecSanitize: get_templates as a function of its argument. One          *)
(* _generate_content thread is at its call with a list drawn from bounded  *)
(* sets of raw names; the call returns or fails.                           *)
(***************************************************************************)
\* the characters of a raw name: space ! - . 1 A _ b
RawChars == {32, 33, 45, 46, 49, KeyUpperA, 95, ChB}

RawNames == UNION {[1..n -> RawChars] : n \in 0..MaxRawLen}

\* the names that follow the first one in a drawn list: "", "b", " 1!"
LaterNames == {<<>>, <<ChB>>, <<32, 49, 33>>}

RawLists ==
    {<<>>} \cup
    UNION {{<<first>> \o rest : first \in RawNames, rest \in [1..n -> LaterNames]} :
           n \in 0..(MaxNames - 1)}

InitSanitize ==
    /\ generators \in {<<[pc |-> "call", list |-> list]>> : list \in RawLists}
    /\ selected_templates = Range(generators[1].list)
    /\ templates = <<>>
    /\ filtered_templates = <<>>
    /\ filter_text = <<>>
    /\ template_usage = EmptyDict
    /\ recently_used = <<>>
    /\ usage_file = NoUsageFile
    /\ gitignore_file = NoFile
    /\ generated_content = EmptyContent
    /\ current_panel = 1
    /\ template_selected = 0
    /\ template_scroll = 0
    /\ selected_index = 0
    /\ selected_scroll = 0
    /\ content_scroll = 0
    /\ loading = FALSE
    /\ generation_in_progress = TRUE
    /\ running = TRUE
    /\ status_message = "Generating content"
    /\ error_message = ""
    /\ message_expired = FALSE
    /\ loaders = <<>>
    /\ mainpc = "render"
    /\ clean = FALSE
    /\ toggled = {}
    /\ probe = IdleProbe

NextSanitize ==
    \/ GenReturnOk(1)
    \/ GenReturnFail(1)

SpecSanitize == InitSanitize /\ [][NextSanitize]_vars

(***************************************************************************)
(* Properties of get_templates (checked under SpecSanitize).               *)
(***************************************************************************)
\* a character the request may carry: a lower-case letter, a digit, - _ .
RequestChar(c) == (c >= 97 /\ c <= 122) \/ (c >= 48 /\ c <= 57) \/ c \in {45, 95, 46}

\* a name lower-cased, then without the characters no request carries
SanitizedName(tech) == SelectSeq(Lower(tech), RequestChar)

\* the sanitized names that are not empty, in the order of the input
RECURSIVE SanitizedNames(_)
SanitizedNames(technologies) ==
    IF technologies = <<>> THEN <<>>
    ELSE (IF SanitizedName(Head(technologies)) = <<>> THEN <<>>
          ELSE <<SanitizedName(Head(technologies))>>)
         \o SanitizedNames(Tail(technologies))

\* C31: get_templates removes from each name every character other than
\* alphanumerics, hyphen, underscore and dot and drops the names left empty;
\* when no name remains it returns a placeholder text and makes no remote
\* call (so the call cannot fail); otherwise it requests the lower-cased
\* sanitized names in the order of its input.
C31_SanitizedRequest ==
    [][(GenReturnOk(1) \/ GenReturnFail(1)) =>
          LET technologies == generators[1].list
              names == SanitizedNames(technologies)
          IN  /\ NeedsNetwork(technologies) <=> names # <<>>
              /\ names = <<>> =>
                    /\ generated_content' \in {Placeholder, NoValidContent}
                    /\ ~ENABLED GenReturnFail(1)
              /\ (names # <<>> /\ GenReturnOk(1)) =>
                    generated_content' = RemoteResponse(names)]_vars

\* "A!", "", "b" was given and "a,b" requested: a character was removed, a
\* name was dropped and the order kept
C31_Witness ==
    /\ generators = <<>>
    /\ selected_templates = {<<KeyUpperA, 33>>, <<>>, <<ChB>>}
    /\ generated_content = RemoteResponse(<<<<ChA>>, <<ChB>>>>)

(***************************************************************************)
(* SpecShrink: as SpecSelected, with the user back in the Catalog panel,   *)
(* the Catalog cursor on any entry: the Select key on a selected entry     *)
(* takes it out of the selection while the Selected panel keeps its cursor *)
(* and its scroll offset.                                                  *)
(***************************************************************************)
InitShrink == InitSelectedIn(1, 0..(MaxSel - 1))

NextShrink ==
    \/ Render
    \/ NoKey
    \/ KeyPress(KeySpace, TRUE)
    \/ GenThreads

SpecShrink == InitShrink /\ [][NextShrink]_vars

(***************************************************************************)
(* Properties of the frame (checked under SpecShrink).                     *)
(***************************************************************************)
\* C32: after every rendered frame that draws a list, the panel's scroll
\* offset has the panel's cursor inside the visible window
\* (scroll <= cursor < scroll + visible rows), in the Catalog panel and in
\* the Selected panel, also in the frame that follows a shrinking of the
\* list.
C32_CursorInWindowAfterFrame ==
    [][Render =>
          /\ (~loading /\ filtered_templates # <<>>) =>
                /\ template_scroll' <= template_selected'
                /\ template_selected' < template_scroll' + CatalogVisible
          /\ selected_templates # {} =>
                /\ selected_scroll' <= selected_index'
                /\ selected_index' < selected_scroll' + SelectedVisible]_vars

(***************************************************************************)
(* _draw_scrollbar (lines 599-616): what it draws. The quotients are       *)
(* computed in floating point and truncated by int(); for the sizes that   *)
(* occur here (a track of fewer than 22 rows) that is the integer quotient.*)
(***************************************************************************)
\* (a variant without the minimum of one row, for comparison)
ThumbHeightFromZero(height, total_items, visible_items) ==
    (visible_items * height) \div total_items
\* line 604
ThumbHeight(height, total_items, visible_items) ==
    Max2(1, (visible_items * height) \div total_items)

\* line 605
ThumbPosition(height, total_items, visible_items, scroll_position) ==
    (scroll_position * (height - ThumbHeight(height, total_items, visible_items)))
        \div Max2(1, total_items - visible_items)

NoScrollbar == [shown |-> FALSE, thumb_height |-> 0, thumb_position |-> 0]

\* lines 601-605
Scrollbar(height, total_items, visible_items, scroll_position) ==
    IF total_items <= visible_items THEN NoScrollbar
    ELSE [shown |-> TRUE,
          thumb_height |-> ThumbHeight(height, total_items, visible_items),
          thumb_position |->
              ThumbPosition(height, total_items, visible_items, scroll_position)]

\* a panel as _draw_scrollbar sees it
Panel(drawn, total, visible, scroll) ==
    [drawn |-> drawn, total |-> total, visible |-> visible, scroll |-> scroll]

\* the three panels with a list, as the frame draws them: the Catalog
\* (lines 437-443, 456-466, 503-507), the Selected panel (lines 538-559,
\* 594-597) and the Content panel (lines 632-641, 655-658)
Panels ==
    <<Panel(~loading /\ filtered_templates # <<>>, Len(filtered_templates),
            CatalogVisible, template_scroll),
      Panel(selected_templates # {}, Cardinality(selected_templates),
            SelectedVisible, selected_scroll),
      Panel(generated_content # EmptyContent, Len(generated_content),
            ContentVisible, content_scroll)>>

\* the scroll bar the frame draws in a panel
PanelScrollbar(p) ==
    IF p.drawn THEN Scrollbar(p.visible, p.total, p.visible, p.scroll) ELSE NoScrollbar

(***************************************************************************)
(* SpecScroll: as SpecSelected, with the user going from panel to panel,   *)
(* moving down in each and clearing the selection.                         *)
(***************************************************************************)
ScrollKeys == {KeyTab, KeyDown, KeyC}

NextScroll ==
    \/ Render
    \/ NoKey
    \/ \E key \in ScrollKeys : KeyPress(key, TRUE)

SpecScroll == InitSelected /\ [][NextScroll]_vars

(***************************************************************************)
(* Properties of the scroll bars (checked under SpecScroll).               *)
(***************************************************************************)
\* n is num / den rounded to a nearest integer (whichever way a half goes)
IsRounded(n, num, den) == 2 * n * den - 2 * num <= den /\ 2 * num - 2 * n * den <= den

\* n is num / den with its fraction dropped
IsTruncated(n, num, den) == n * den <= num /\ num < (n + 1) * den

\* the bar of panel p is there only if the panel has more items than rows,
\* and then has the height and the offset that Quotient(n, num, den) gives
BarAsGiven(p, Quotient(_, _, _)) ==
    LET bar == PanelScrollbar(p)
    IN  /\ bar.shown <=> (p.drawn /\ p.total > p.visible)
        /\ bar.shown =>
              /\ \E n \in 0..p.visible :
                    /\ Quotient(n, p.visible * p.visible, p.total)
                    /\ bar.thumb_height = Max2(1, n)
              /\ Quotient(bar.thumb_position, p.scroll * (p.visible - bar.thumb_height),
                          p.total - p.visible)

AllBarsRounded == \A i \in 1..3 : BarAsGiven(Panels[i], IsRounded)

AllBarsTruncated == \A i \in 1..3 : BarAsGiven(Panels[i], IsTruncated)

\* C33 as stated: a frame draws a scroll bar only in a panel whose item count
\* exceeds its visible rows, with thumb height
\* round(visibleRows / totalRows * trackHeight), at least 1, and thumb offset
\* round(scrollOffset / (totalRows - visibleRows) * (trackHeight - thumbHeight)).
C33_ScrollbarRounded == [][Render => AllBarsRounded']_vars

\* C33 amended: the same with both quotients truncated to an integer instead
\* of rounded.
C33_ScrollbarTruncated == [][Render => AllBarsTruncated']_vars

\* a frame drew the Catalog's bar for five entries in two rows scrolled by
\* two: the thumb is one row high (4/5 raised to the minimum) at offset 0
\* (2/3 truncated)
C33_Witness ==
    /\ mainpc = "input"
    /\ ~loading
    /\ Len(filtered_templates) = 5
    /\ template_scroll = 2
    /\ PanelScrollbar(Panels[1]) = [shown |-> TRUE, thumb_height |-> 1, thumb_position |-> 0]

(***************************************************************************)
(* Properties of the flags (checked under Spec and SpecRefresh).           *)
(***************************************************************************)
\* C34: generation_in_progress is true whenever a regeneration thread has
\* started its request and not yet written the result, and false whenever no
\* regeneration thread is running.
C34_GenerationFlag ==
    /\ (\E i \in 1..Len(generators) : generators[i].pc = "call") => generation_in_progress
    /\ generators = <<>> => ~generation_in_progress

\* C35: loading is true whenever a _load_templates thread is running, also
\* when r is pressed during a load (the startup load included) and two such
\* threads overlap.
C35_LoadingFlag == loaders # <<>> => loading

(***************************************************************************)
(* SpecLive: as SpecReload, with the quit key, and with every running      *)
(* _load_templates thread scheduled again and again: its request returns   *)
(* or fails (urlopen has a timeout of 10 s, line 116) and its next         *)
(* statement is executed.                                                  *)
(***************************************************************************)
\* the next step of the i-th running _load_templates thread
LoaderStep(i) ==
    \/ \E list \in {ListAABB, ListB} : LoadFetchOk(i, list)
    \/ LoadFetchFail(i)
    \/ LoadFilter(i)
    \/ LoadFinish(i)

LoaderFairness == \A i \in 1..MaxLoad : WF_vars(LoaderStep(i))

NextLive ==
    \/ NextReload
    \/ KeyPress(KeyQ, TRUE)

SpecLive == Init /\ [][NextLive]_vars /\ LoaderFairness

(***************************************************************************)
(* Termination of the catalog loads (checked under SpecLive).              *)
(***************************************************************************)
\* C36: with the threads scheduled fairly and every request returning or
\* failing, every _load_templates thread ends: whenever loading is true, at
\* startup and after every r, a state with loading false follows, whether
\* the load succeeds or fails (or the user has quit and the process, with
\* its daemon threads, is gone).
C36_LoadingEnds == loading ~> (~loading \/ ~Alive)

\* the startup load, or a refresh, has ended with the catalog "b"
C36_Witness ==
    /\ ~loading
    /\ loaders = <<>>
    /\ templates = ListB
    /\ filtered_templates = ListB
    /\ status_message = "Loaded templates"
    /\ Alive

(***************************************************************************)
(* Properties of clearing while a regeneration runs (checked under         *)
(* SpecSelected).                                                          *)
(***************************************************************************)
\* C37: whenever the selection is empty and no regeneration thread is
\* running, the generated content is empty or the no-selection placeholder;
\* a regeneration that was running when c was pressed does not bring the
\* cleared content back.
C37_ClearedStaysCleared ==
    (selected_templates = {} /\ generators = <<>>) =>
        generated_content \in {EmptyContent, Placeholder}

(***************************************************************************)
(* Properties of the file written (checked under SpecSave).                *)
(***************************************************************************)
\* where the last header or separator block of a file starts
LastBlockStart(data) ==
    CHOOSE i \in 1..Len(data) :
        /\ data[i].kind \in {"header", "separator"}
        /\ \A j \in (i + 1)..Len(data) : data[j].kind \notin {"header", "separator"}

\* C38: every file written by s, as a new file, by Overwrite or by Append,
\* names in its header or separator block exactly the templates whose merged
\* content follows the block, also when a regeneration is pending or running
\* at the time of the save.
C38_FileNamesItsContent ==
    [][gitignore_file' # gitignore_file =>
          LET data == gitignore_file'.data
              start == LastBlockStart(data)
          IN  SubSeq(data, start + 1, Len(data)) = Regenerated(Range(data[start].names))]_vars

(***************************************************************************)
(* Properties of the Content panel's scroll offset (checked under          *)
(* SpecScroll).                                                            *)
(***************************************************************************)
\* C39: in every reachable state content_scroll is at least 0 and at most
\* max(0, lines of the generated content - rows the Content panel shows),
\* also after the content was replaced by a shorter one or emptied by c.
C39_ContentScrollInRange ==
    /\ content_scroll >= 0
    /\ content_scroll <= Max2(0, Len(generated_content) - ContentVisible)

(***************************************************************************)
(* SpecTyping: the Search panel, in a session in which entries of the      *)
(* catalog "ab,b" were selected and their content generated; the output    *)
(* file is absent or already there. The user presses the command keys, the *)
(* quit keys, arrows, Enter and Backspace, and never Tab.                  *)
(***************************************************************************)
CommandKeys == {KeyR, KeyC, KeyS, KeyI, KeySlash}

MoveKeys == {KeyUp, KeyDown, KeyEnter, KeyReturn}

TypingKeys == CommandKeys \cup MoveKeys \cup {KeyQ, KeyEsc, KeySpace, KeyBackspace}

InitTyping == InitDialogIn(0)

NextTyping ==
    \/ Render
    \/ NoKey
    \/ \E key \in TypingKeys : KeyPress(key, TRUE)

SpecTyping == InitTyping /\ [][NextTyping]_vars

(***************************************************************************)
(* Properties of the keys in the Search panel (checked under SpecTyping).  *)
(***************************************************************************)
\* C40: while Search is the active panel, a key other than Tab changes
\* neither the active panel, the selection, the generated content, loading,
\* running nor the output file, opens no dialog and starts no thread; r, c,
\* s, i and / are appended to the filter text, and the arrow keys and Enter
\* change nothing.
C40_SearchTakesCommandKeys ==
    [][\A key \in TypingKeys \ {KeyTab} :
          (current_panel = 0 /\ KeyPress(key, TRUE)) =>
             /\ UNCHANGED <<current_panel, selected_templates, generated_content,
                            loading, running, gitignore_file, loaders, generators>>
             /\ mainpc' = "render"
             /\ key \in CommandKeys => filter_text' = Append(filter_text, key)
             /\ key \in MoveKeys =>
                   UNCHANGED <<catalogVars, cursorVars, usageVars, messageVars>>]_vars

\* "c" then "s" were typed: they are the filter text, and the selection, its
\* content and the absent output file are as they were
C40_Witness ==
    /\ current_panel = 0
    /\ filter_text = <<KeyC, KeyS>>
    /\ selected_templates = {NameAB, NameB}
    /\ generated_content = Regenerated(selected_templates)
    /\ gitignore_file = NoFile
    /\ mainpc = "render"

====
